---- MODULE Spec2Model ----
(***************************************************************************)
(* Model of the workflow engine of the Pinterest scraper backend:          *)
(*   app/database/status.py      StatusDB   (the StatusTracker)            *)
(*   app/database/base.py        BaseDB     (the document store wrapper)   *)
(*   app/services/workflow/main.py, app/routes/main.py                     *)
(*                               the background run of one prompt          *)
(*                                                                         *)
(* A collection is a sequence of documents in natural (insertion) order:   *)
(* find_one / update_one act on the first document that matches a filter.  *)
(* Every store operation (find_one, insert_one, update_one, delete_many)   *)
(* is one atomic step; a StatusDB method is a sequence of such steps, and  *)
(* concurrent callers interleave between them.                             *)
(*                                                                         *)
(* status.py:42 evaluates `cls.collection`.  Neither StatusDB (status.py    *)
(* 24-177) nor BaseDB (base.py 17-184) defines an attribute `collection`   *)
(* (BaseDB offers collection_name and get_collection()), so the attribute  *)
(* lookup raises AttributeError before delete_many or the insert at line   *)
(* 55 can run: create_workflow_status inserts nothing, and the exception   *)
(* propagates through update_step_status (line 69) to its caller.  Status  *)
(* documents therefore only exist when the durable collection already      *)
(* holds them; the initial states draw such collections.                   *)
(***************************************************************************)
EXTENDS Integers, Sequences, FiniteSets, TLC

VARIABLES store, clock, call, nops, callers,
          prompt_status, sessions, pins, calls, run, issued, published,
          active_connections, socket_state, received, handler, pub,
          prompts, responses, pin_docs, evaluation, session_timestamp

statusVars == <<store, clock, call, nops, callers>>
runVars == <<prompt_status, sessions, pins, calls, run, issued, published>>
hubVars == <<active_connections, socket_state, received, handler, pub>>
otherVars == <<prompts, responses, pin_docs, evaluation, session_timestamp>>
vars == <<store, clock, call, nops, callers,
          prompt_status, sessions, pins, calls, run, issued, published,
          active_connections, socket_state, received, handler, pub,
          prompts, responses, pin_docs, evaluation, session_timestamp>>

(* ------------------------------ bounds -------------------------------- *)
MaxOps == 3
MaxSeqOps == 2
MaxInitDocs == 2

Procs == {1, 2}
PromptIds == {"p1", "p2"}
(* the instance id the modelled calls are made for; documents of the other  *)
(* id are bystanders                                                        *)
CallIds == {"p1"}

(* message: str = None.  All call sites pass None or a non-empty literal.  *)
NoMessage == "None"
Messages == {"m1", "m2"}
(* progress: float = None; percentages are modelled as integers.           *)
NoProgress == -1
Progresses == {100}
(* status.py:102 singles out "completed"; every other status string takes   *)
(* the branch "running" takes                                               *)
Statuses == {"running", "completed"}
(* completed_at: None *)
NoTime == 0

(* ----------------------- BaseDB / the collection ---------------------- *)
NoDoc ==
  [id |-> 0, prompt_id |-> "", overall_status |-> "", current_step |-> 0,
   total_steps |-> 0, progress |-> 0, messages |-> <<>>, started_at |-> 0,
   completed_at |-> NoTime]

Matching(s, pid) == {i \in 1..Len(s) : s[i].prompt_id = pid}

FirstIdx(s, pid) ==
  IF Matching(s, pid) = {} THEN 0
  ELSE CHOOSE i \in Matching(s, pid) : \A j \in Matching(s, pid) : i <= j

(* BaseDB.get_one: collection.find_one(filter) -> document or None *)
get_one(s, pid) == IF FirstIdx(s, pid) = 0 THEN NoDoc ELSE s[FirstIdx(s, pid)]

(* collection.delete_many({"_id": {"$in": ids}}) *)
delete_ids(s, ids) == SelectSeq(s, LAMBDA d : d.id \notin ids)

(* list(collection.find({"prompt_id": pid})) *)
find_all(s, pid) == SelectSeq(s, LAMBDA d : d.prompt_id = pid)

(* ------------------------------ StatusDB ------------------------------ *)
(* `if message:` - None and the empty string are both falsy *)
Truthy(message) == message # NoMessage /\ message # ""

(* apply_update without lines 94-95: total_steps is left behind *)
apply_update_keeps_total(target, cur_step, cur_total, status, message, progress, now) ==
  [target EXCEPT
     !.overall_status = status,
     !.messages = IF Truthy(message) THEN Append(@, message) ELSE @,
     !.current_step = IF Truthy(message) THEN cur_step + 1 ELSE @,
     !.progress = IF progress # NoProgress THEN progress ELSE @,
     !.completed_at = IF status = "completed" THEN now ELSE @]

(* apply_update deriving the step count from the percentage: a progress     *)
(* value alone advances current_step                                        *)
apply_update_steps_from_progress(target, cur_step, cur_total, status, message, progress, now) ==
  [target EXCEPT
     !.overall_status = status,
     !.messages = IF Truthy(message) THEN Append(@, message) ELSE @,
     !.current_step = IF Truthy(message) \/ progress # NoProgress
                      THEN cur_step + 1 ELSE @,
     !.total_steps = IF Truthy(message) /\ cur_total < cur_step + 1
                     THEN cur_step + 1 ELSE @,
     !.progress = IF progress # NoProgress THEN progress ELSE @,
     !.completed_at = IF status = "completed" THEN now ELSE @]

(* apply_update with total_steps kept one step ahead of current_step, as an *)
(* estimate of the steps to come                                            *)
apply_update_total_ahead(target, cur_step, cur_total, status, message, progress, now) ==
  [target EXCEPT
     !.overall_status = status,
     !.messages = IF Truthy(message) THEN Append(@, message) ELSE @,
     !.current_step = IF Truthy(message) THEN cur_step + 1 ELSE @,
     !.total_steps = IF Truthy(message) /\ cur_total < cur_step + 2
                     THEN cur_step + 2 ELSE @,
     !.progress = IF progress # NoProgress THEN progress ELSE @,
     !.completed_at = IF status = "completed" THEN now ELSE @]

(* status.py:77-124: the update built from the document read at line 64     *)
(* (cur_step, cur_total) and applied by update_one to the target document:  *)
(* $set of overall_status, current_step, total_steps, progress,             *)
(* completed_at and $push of the message.                                   *)
apply_update(target, cur_step, cur_total, status, message, progress, now) ==
  [target EXCEPT
     !.overall_status = status,
     !.messages = IF Truthy(message) THEN Append(@, message) ELSE @,
     !.current_step = IF Truthy(message) THEN cur_step + 1 ELSE @,
     !.total_steps = IF Truthy(message) /\ cur_total < cur_step + 1
                     THEN cur_step + 1 ELSE @,
     !.progress = IF progress # NoProgress THEN progress ELSE @,
     !.completed_at = IF status = "completed" THEN now ELSE @]

(* BaseDB.update_one on the first document of pid; the store is unchanged   *)
(* when no document matches.                                                *)
update_one(s, pid, cur_step, cur_total, status, message, progress, now) ==
  IF FirstIdx(s, pid) = 0 THEN s
  ELSE [s EXCEPT ![FirstIdx(s, pid)] =
          apply_update(@, cur_step, cur_total, status, message, progress, now)]

(* StatusDB.get_workflow_progress: projection of the first document, or {}  *)
(* (NoDoc, whose id is 0).                                                  *)
get_workflow_progress(s, pid) == get_one(s, pid)

(* status.py:165: all_docs.sort(key=(len(messages), started_at),            *)
(* reverse=True).  The sort is stable: documents with equal keys keep their *)
(* find() order.                                                            *)
(* the sort key with started_at ascending: the oldest document wins a tie *)
KeyGreater_oldest(a, b) ==
  \/ Len(a.messages) > Len(b.messages)
  \/ Len(a.messages) = Len(b.messages) /\ a.started_at < b.started_at

KeyGreater(a, b) ==
  \/ Len(a.messages) > Len(b.messages)
  \/ Len(a.messages) = Len(b.messages) /\ a.started_at > b.started_at

RECURSIVE InsertDesc(_, _)
InsertDesc(sorted, d) ==
  IF sorted = <<>> THEN <<d>>
  ELSE IF KeyGreater(d, Head(sorted)) THEN <<d>> \o sorted
  ELSE <<Head(sorted)>> \o InsertDesc(Tail(sorted), d)

RECURSIVE SortDocs(_)
SortDocs(docs) ==
  IF docs = <<>> THEN <<>>
  ELSE InsertDesc(SortDocs(SubSeq(docs, 1, Len(docs) - 1)), docs[Len(docs)])

(* status.py:168-169: keep all_docs[0], delete all_docs[1:] *)
keep_doc(docs) == SortDocs(docs)[1]
delete_id_list(docs) == {SortDocs(docs)[i].id : i \in 2..Len(docs)}

(* ------------------------- callers of StatusDB ------------------------ *)
(* One record per caller: the call in progress (fn, arguments, position pc, *)
(* the step counters read at line 64, the ids chosen at line 169) and the   *)
(* outcome of the caller's last call (retId: create_workflow_status's id,   *)
(* retOk: update_step_status's bool, retN: the cleanup's count, raised: the *)
(* call ended by an exception).                                             *)
IdleCall ==
  [pc |-> "idle", fn |-> "none", pid |-> "", status |-> "", message |-> NoMessage,
   progress |-> NoProgress, nested |-> FALSE, cur_step |-> 0, cur_total |-> 0,
   del |-> {}, retId |-> 0, retOk |-> FALSE, retN |-> 0, raised |-> FALSE]

Returned(c, id, ok, n, exc) ==
  [IdleCall EXCEPT !.fn = c.fn, !.pid = c.pid,
                   !.retId = id, !.retOk = ok, !.retN = n, !.raised = exc]

OpsBound == IF callers = Procs THEN MaxOps ELSE MaxSeqOps

CanStart(p) == p \in callers /\ call[p].pc = "idle" /\ nops < OpsBound

(* create_workflow_status re-initialising the document it finds (the zero   *)
(* counters of status.py:44-53 written over it) instead of returning it     *)
create_lookup_reinit(p, pid) ==
  /\ CanStart(p)
  /\ LET existing == get_one(store, pid)
         c == [IdleCall EXCEPT !.fn = "create", !.pid = pid]
     IN /\ call' = [call EXCEPT ![p] =
                      IF existing.id # 0 THEN Returned(c, existing.id, FALSE, 0, FALSE)
                      ELSE [c EXCEPT !.pc = "c_delete"]]
        /\ store' = IF existing.id = 0 THEN store
                    ELSE [store EXCEPT ![FirstIdx(store, pid)] =
                            [@ EXCEPT !.overall_status = "pending", !.current_step = 0,
                                      !.total_steps = 0, !.messages = <<>>]]
  /\ nops' = nops + 1
  /\ UNCHANGED <<clock, callers, runVars, hubVars, otherVars>>

(* create_workflow_status, status.py:34-39: lookup, return the existing id  *)
create_lookup(p, pid) ==
  /\ CanStart(p)
  /\ LET existing == get_one(store, pid)
         c == [IdleCall EXCEPT !.fn = "create", !.pid = pid]
     IN call' = [call EXCEPT ![p] =
                   IF existing.id # 0 THEN Returned(c, existing.id, FALSE, 0, FALSE)
                   ELSE [c EXCEPT !.pc = "c_delete"]]
  /\ nops' = nops + 1
  /\ UNCHANGED <<store, clock, callers, runVars, hubVars, otherVars>>

(* status.py:42: `cls.collection` raises AttributeError; lines 44-56 (the   *)
(* insert) are not reached.  The exception ends the call, and the           *)
(* update_step_status call it is nested in (status.py:69).                  *)
create_delete(p) ==
  /\ call[p].pc = "c_delete"
  /\ call' = [call EXCEPT ![p] = Returned(call[p], 0, FALSE, 0, TRUE)]
  /\ UNCHANGED <<store, clock, nops, callers, runVars, hubVars, otherVars>>

(* update_step_status, status.py:64-65: read the current document *)
update_read(p, pid, status, message, progress) ==
  /\ CanStart(p)
  /\ LET current_doc == get_one(store, pid) IN
     call' = [call EXCEPT ![p] =
       [IdleCall EXCEPT !.fn = "update", !.pid = pid, !.status = status,
                        !.message = message, !.progress = progress,
                        !.pc = IF current_doc.id # 0 THEN "u_write" ELSE "u_create",
                        !.cur_step = current_doc.current_step,
                        !.cur_total = current_doc.total_steps]]
  /\ nops' = nops + 1
  /\ UNCHANGED <<store, clock, callers, runVars, hubVars, otherVars>>

(* status.py:69 -> 37-39: the nested create_workflow_status looks up first. *)
(* No document is ever inserted, so the lookup finds what line 64 found:    *)
(* nothing; lines 70-73 are not reached.                                    *)
update_create_lookup(p) ==
  /\ call[p].pc = "u_create"
  /\ get_one(store, call[p].pid).id = 0
  /\ call' = [call EXCEPT ![p].nested = TRUE, ![p].pc = "c_delete"]
  /\ UNCHANGED <<store, clock, nops, callers, runVars, hubVars, otherVars>>

(* status.py:77-135: build the update, update_one, return modified_count>0  *)
(* (the read-back at 129 changes nothing).  datetime.now() is read only for *)
(* status "completed".                                                      *)
update_write(p) ==
  /\ call[p].pc = "u_write"
  /\ store' = update_one(store, call[p].pid, call[p].cur_step, call[p].cur_total,
                         call[p].status, call[p].message, call[p].progress, clock)
  /\ clock' = IF call[p].status = "completed" THEN clock + 1 ELSE clock
  /\ call' = [call EXCEPT ![p] = Returned(call[p], 0, store' # store, 0, FALSE)]
  /\ UNCHANGED <<nops, callers, runVars, hubVars, otherVars>>

(* cleanup_duplicate_status_documents, status.py:158-169: find, sort, pick *)
cleanup_find(p, pid) ==
  /\ CanStart(p)
  /\ LET all_docs == find_all(store, pid)
         c == [IdleCall EXCEPT !.fn = "cleanup", !.pid = pid]
     IN call' = [call EXCEPT ![p] =
                   IF Len(all_docs) <= 1 THEN Returned(c, 0, FALSE, 0, FALSE)
                   ELSE [c EXCEPT !.pc = "k_delete", !.retId = keep_doc(all_docs).id,
                                  !.del = delete_id_list(all_docs)]]
  /\ nops' = nops + 1
  /\ UNCHANGED <<store, clock, callers, runVars, hubVars, otherVars>>

(* status.py:171-175: delete_many({"_id": {"$in": delete_ids}}), return the *)
(* deleted count                                                            *)
cleanup_delete(p) ==
  /\ call[p].pc = "k_delete"
  /\ store' = delete_ids(store, call[p].del)
  /\ call' = [call EXCEPT ![p] =
                Returned(call[p], call[p].retId, FALSE, Len(store) - Len(store'), FALSE)]
  /\ UNCHANGED <<clock, nops, callers, runVars, hubVars, otherVars>>

(* -------------------- the background run of one instance --------------- *)
(* routes/main.py:25-88 runs the collection workflow (workflow/main.py      *)
(* 532-611) and then the AI validation (137-238) for the prompt that        *)
(* create_prompt (routes/main.py:98) has just inserted with status pending. *)
(* The task is one coroutine: its steps follow one another.  A call to a    *)
(* collaborator (browser session, feed, evaluator) is a step whose outcome  *)
(* the environment chooses.  The store is assumed to answer every request.  *)
RunId == "p1"
MaxPins == 3
(* current_session_id = None *)
NoSession == 0

Phases == <<"initialize", "warmup", "collect", "enrich", "evaluate">>
PhaseSet == {Phases[i] : i \in 1..Len(Phases)}

(* the phase whose function calls collaborator method m *)
CollaboratorPhase(m) ==
  CASE m \in {"initialize_browser", "login"} -> "initialize"
    [] m = "feed_algorithm" -> "warmup"
    [] m \in {"goto", "scrape_feed"} -> "collect"
    [] m = "enrich_with_titles" -> "enrich"
    [] m \in {"AIEvaluator", "evaluate_pins_for_prompt"} -> "evaluate"
    [] OTHER -> "cleanup"

(* the stage of the Session a phase records its outcome on *)
StageOf(P) ==
  CASE P = "warmup" -> "warmup"
    [] P \in {"collect", "enrich"} -> "scraping"
    [] P = "evaluate" -> "validation"
    [] OTHER -> "none"

BaseDBMethods ==
  {"get_collection", "create_one", "create_many", "get_one", "get_by_id", "get_many",
   "update_one", "update_by_id", "delete_one", "delete_by_id", "count"}

(* class PromptDB with a classmethod get_prompt_by_id *)
PromptDBMethods_with_lookup ==
  BaseDBMethods \cup {"create_prompt", "update_prompt_status", "get_prompt",
                      "get_prompts_by_status", "get_prompt_by_id"}

(* the callable attributes of class PromptDB(BaseDB), prompts.py:22-78 *)
PromptDBMethods ==
  BaseDBMethods \cup {"create_prompt", "update_prompt_status", "get_prompt",
                      "get_prompts_by_status"}

(* PromptDB.<name> raises AttributeError unless the class has the attribute *)
Resolves(name) == name \in PromptDBMethods

(* SessionDB: the sessions collection; a Session's id is its position *)
create_session(ss, stage) ==
  Append(ss, [stage |-> stage, status |-> "pending", log |-> <<>>])

update_session_status(ss, sid, status) ==
  IF sid \in 1..Len(ss) THEN [ss EXCEPT ![sid].status = status] ELSE ss

add_session_log(ss, sid, lines) ==
  IF sid \in 1..Len(ss) THEN [ss EXCEPT ![sid].log = @ \o lines] ELSE ss

(* _log, main.py:37-45 and 266-274: stored only when a current session is set *)
Log(ss, sid, lines) == IF sid = NoSession THEN ss ELSE add_session_log(ss, sid, lines)

(* WorkflowOrchestrator.setStatus, main.py:47-82, on the status collection:  *)
(* update_step_status applies the update to the record of pid; without a     *)
(* record it raises (status.py:69 -> 42) and setStatus swallows the          *)
(* exception at line 81, before the WebSocket update of line 76.             *)
setStatus(s, pid, status, message, progress, now) ==
  IF get_one(s, pid).id = 0 THEN s
  ELSE update_one(s, pid, get_one(s, pid).current_step, get_one(s, pid).total_steps,
                  status, message, progress, now)

(* datetime.now() at status.py:103 *)
setStatus_clock(s, pid, status, now) ==
  IF get_one(s, pid).id # 0 /\ status = "completed" THEN now + 1 ELSE now

(* the task's locals and the fields of the orchestrator and its handler *)
RunIdle ==
  [pc |-> "idle", warmup_session |-> FALSE, pins_handler |-> FALSE,
   current_session_id |-> NoSession, scraping_session_id |-> NoSession,
   orchestrator_session_id |-> NoSession,
   result |-> [P \in PhaseSet |-> "none"], pin_ids |-> 0, success |-> FALSE]

(* await self.orchestrator.setStatus(...): the call is issued; the update is *)
(* applied and the event handed to websocket_manager.send_status_update     *)
(* (main.py:76) only when update_step_status did not raise.  No observer is *)
(* connected during the run modelled here: send_status_update returns at    *)
(* manager.py:50-52.                                                        *)
Status(status, message, progress) ==
  /\ issued' = Append(issued, [status |-> status, message |-> message,
                               progress |-> progress])
  /\ store' = setStatus(store, RunId, status, message, progress, clock)
  /\ clock' = setStatus_clock(store, RunId, status, clock)
  /\ published' = IF get_one(store, RunId).id = 0 THEN published
                  ELSE Append(published, [status |-> status, message |-> message])

(* routes/main.py:31-45 *)
route_start ==
  /\ run.pc = "start"
  /\ Status("running", "Starting Pinterest workflow", 5)
  /\ run' = [run EXCEPT !.pc = "pinterest"]
  /\ UNCHANGED <<call, nops, callers, prompt_status, sessions, pins, calls, hubVars, otherVars>>

(* run_pinterest_workflow, main.py:114-135, into run_complete_workflow       *)
(* 543-557.  _initialize_workflow_status (84-97) returns the existing        *)
(* record's id or, create_workflow_status raising at status.py:42, None: the *)
(* status collection is not changed.  The handler is new: its                *)
(* current_session_id, copied at line 129, is None.                          *)
run_pinterest_workflow ==
  /\ run.pc = "pinterest"
  /\ Status("running", "Initializing Pinterest session and browser", 0)
  /\ run' = [run EXCEPT !.pc = "initialize",
                        !.orchestrator_session_id = run.current_session_id]
  /\ UNCHANGED <<call, nops, callers, prompt_status, sessions, pins, calls, hubVars, otherVars>>

InitOutcomes == {"ok", "login_failed", "browser_raises", "login_raises"}

(* initialize_session, main.py:286-318 *)
initialize_session(out) ==
  /\ run.pc = "initialize"
  /\ calls' = calls \o (IF out = "browser_raises" THEN <<"initialize_browser">>
                        ELSE <<"initialize_browser", "login">>)
  /\ sessions' = Log(sessions, run.current_session_id,
                     IF out = "browser_raises"
                     THEN <<"Initializing Pinterest session...", "Starting browser...",
                            "Session initialization failed">>
                     ELSE <<"Initializing Pinterest session...", "Starting browser...",
                            "Attempting Pinterest login...",
                            CASE out = "ok" -> "Pinterest login successful"
                              [] out = "login_failed" -> "Pinterest login failed"
                              [] OTHER -> "Session initialization failed">>)
  /\ prompt_status' = IF out = "ok" THEN prompt_status ELSE "error"
  /\ run' = [run EXCEPT !.pc = "initialized",
                        !.warmup_session = TRUE,
                        !.pins_handler = (out = "ok"),
                        !.result["initialize"] = IF out = "ok" THEN "ok" ELSE "failed"]
  /\ UNCHANGED <<statusVars, issued, published, pins, hubVars, otherVars>>

(* after a successful initialization the workflow goes on to the scraping *)
after_initialize_skips_warmup ==
  /\ run.pc = "initialized"
  /\ IF run.result["initialize"] = "failed"
     THEN /\ Status("failed", "Session initialization failed", NoProgress)
          /\ run' = [run EXCEPT !.pc = "cleanup"]
          /\ UNCHANGED sessions
     ELSE /\ Status("completed", "Pinterest session initialized successfully", 25)
          /\ sessions' = Log(sessions, run.current_session_id, <<"=== WARMUP PHASE ===">>)
          /\ run' = [run EXCEPT !.pc = "scraping"]
  /\ UNCHANGED <<call, nops, callers, prompt_status, pins, calls, hubVars, otherVars>>

(* run_complete_workflow, main.py:559-569 *)
after_initialize ==
  /\ run.pc = "initialized"
  /\ IF run.result["initialize"] = "failed"
     THEN /\ Status("failed", "Session initialization failed", NoProgress)
          /\ run' = [run EXCEPT !.pc = "cleanup"]
          /\ UNCHANGED sessions
     ELSE /\ Status("completed", "Pinterest session initialized successfully", 25)
          /\ sessions' = Log(sessions, run.current_session_id, <<"=== WARMUP PHASE ===">>)
          /\ run' = [run EXCEPT !.pc = "warmup"]
  /\ UNCHANGED <<call, nops, callers, prompt_status, pins, calls, hubVars, otherVars>>

(* run_warmup_phase, main.py:327-340 *)
warmup_begin ==
  /\ run.pc = "warmup"
  /\ IF ~run.warmup_session
     THEN /\ sessions' = Log(sessions, run.current_session_id, <<"Session not initialized">>)
          /\ run' = [run EXCEPT !.pc = "scraping", !.result["warmup"] = "failed"]
          /\ UNCHANGED <<store, clock, issued, published>>
     ELSE /\ Status("running", "Starting Pinterest algorithm warmup", NoProgress)
          /\ sessions' = Log(create_session(sessions, "warmup"), Len(sessions) + 1,
                             <<"Starting warmup phase">>)
          /\ run' = [run EXCEPT !.pc = "warmup_call",
                                !.current_session_id = Len(sessions) + 1]
  /\ UNCHANGED <<call, nops, callers, prompt_status, pins, calls, hubVars, otherVars>>

WarmupOutcomes == {"ok", "false", "raises"}

(* a raising feed_algorithm leaves the warmup Session as it is *)
warmup_call_unfinalized(out) ==
  /\ run.pc = "warmup_call"
  /\ calls' = Append(calls, "feed_algorithm")
  /\ Status(IF out = "ok" THEN "completed" ELSE "failed",
            CASE out = "ok" -> "Pinterest algorithm warmup completed successfully"
              [] out = "false" -> "Warmup phase failed"
              [] OTHER -> "Warmup phase error",
            NoProgress)
  /\ sessions' = IF out = "raises" THEN sessions
                 ELSE update_session_status(
                        Log(sessions, run.current_session_id,
                            <<IF out = "ok" THEN "Warmup phase completed successfully"
                              ELSE "Warmup phase failed">>),
                        run.current_session_id,
                        IF out = "ok" THEN "ready" ELSE "failed")
  /\ run' = [run EXCEPT !.pc = "scraping",
                        !.result["warmup"] = IF out = "ok" THEN "ok" ELSE "failed"]
  /\ UNCHANGED <<call, nops, callers, prompt_status, pins, hubVars, otherVars>>

(* run_warmup_phase, main.py:342-371, and the return to line 570: the value  *)
(* is bound to warmup_success and not read again                             *)
warmup_call(out) ==
  /\ run.pc = "warmup_call"
  /\ calls' = Append(calls, "feed_algorithm")
  /\ Status(IF out = "ok" THEN "completed" ELSE "failed",
            CASE out = "ok" -> "Pinterest algorithm warmup completed successfully"
              [] out = "false" -> "Warmup phase failed"
              [] OTHER -> "Warmup phase error",
            NoProgress)
  /\ sessions' = update_session_status(
                   Log(sessions, run.current_session_id,
                       <<CASE out = "ok" -> "Warmup phase completed successfully"
                           [] out = "false" -> "Warmup phase failed"
                           [] OTHER -> "Warmup phase error">>),
                   run.current_session_id,
                   IF out = "ok" THEN "ready" ELSE "failed")
  /\ run' = [run EXCEPT !.pc = "scraping",
                        !.result["warmup"] = IF out = "ok" THEN "ok" ELSE "failed"]
  /\ UNCHANGED <<call, nops, callers, prompt_status, pins, hubVars, otherVars>>

(* main.py:573-574 and run_scraping_phase, 383-403 *)
scraping_begin ==
  /\ run.pc = "scraping"
  /\ IF ~run.warmup_session \/ ~run.pins_handler
     THEN /\ sessions' = Log(sessions, run.current_session_id,
                             <<"=== SCRAPING PHASE ===", "Session not properly initialized">>)
          /\ run' = [run EXCEPT !.pc = "scraped", !.pin_ids = 0,
                                !.result["collect"] = "failed"]
          /\ UNCHANGED <<store, clock, issued, published>>
     ELSE /\ Status("running", "Starting scraping phase", NoProgress)
          /\ sessions' = Log(create_session(
                               Log(sessions, run.current_session_id,
                                   <<"=== SCRAPING PHASE ===">>),
                               "scraping"),
                             run.current_session_id,
                             <<"Starting scraping phase", "Refreshing Pinterest feed...">>)
          /\ run' = [run EXCEPT !.pc = "scraping_call",
                                !.scraping_session_id = Len(sessions) + 1]
  /\ UNCHANGED <<call, nops, callers, prompt_status, pins, calls, hubVars, otherVars>>

ScrapingOutcomes == {"pins", "empty", "goto_raises", "scrape_raises"}

(* run_scraping_phase, main.py:404-442; n is the number of pins scrape_feed  *)
(* returned when it returned any                                             *)
scraping_call(out, n) ==
  /\ run.pc = "scraping_call"
  /\ out = "pins" \/ n = 1
  /\ calls' = calls \o (IF out = "goto_raises" THEN <<"goto">> ELSE <<"goto", "scrape_feed">>)
  /\ pins' = IF out = "pins" THEN pins + n ELSE pins
  /\ Status(IF out = "pins" THEN "completed" ELSE "failed",
            CASE out = "pins" -> "Scraping completed"
              [] out = "empty" -> "No pins found during scraping"
              [] OTHER -> "Scraping phase error",
            IF out = "pins" THEN 100 ELSE NoProgress)
  /\ sessions' = update_session_status(
                   Log(sessions, run.current_session_id,
                       CASE out = "pins" -> <<"Scraping completed", "Saved pins to database">>
                         [] out = "empty" -> <<"No pins found during scraping">>
                         [] OTHER -> <<"Scraping phase error">>),
                   run.scraping_session_id,
                   IF out = "pins" THEN "completed" ELSE "failed")
  /\ run' = [run EXCEPT !.pc = "scraped",
                        !.pin_ids = IF out = "pins" THEN n ELSE 0,
                        !.result["collect"] = IF out = "pins" THEN "ok" ELSE "failed"]
  /\ UNCHANGED <<call, nops, callers, prompt_status, hubVars, otherVars>>

(* the early return after an empty collect leaves without the cleanup *)
after_scraping_without_cleanup ==
  /\ run.pc = "scraped"
  /\ IF run.pin_ids = 0
     THEN /\ prompt_status' = "error"
          /\ run' = [run EXCEPT !.pc = "returned"]
          /\ UNCHANGED sessions
     ELSE /\ sessions' = Log(sessions, run.current_session_id, <<"=== ENRICHMENT PHASE ===">>)
          /\ run' = [run EXCEPT !.pc = "enrich"]
          /\ UNCHANGED prompt_status
  /\ UNCHANGED <<statusVars, issued, published, pins, calls, hubVars, otherVars>>

(* run_complete_workflow, main.py:575-581 *)
after_scraping ==
  /\ run.pc = "scraped"
  /\ IF run.pin_ids = 0
     THEN /\ prompt_status' = "error"
          /\ run' = [run EXCEPT !.pc = "cleanup"]
          /\ UNCHANGED sessions
     ELSE /\ sessions' = Log(sessions, run.current_session_id, <<"=== ENRICHMENT PHASE ===">>)
          /\ run' = [run EXCEPT !.pc = "enrich"]
          /\ UNCHANGED prompt_status
  /\ UNCHANGED <<statusVars, issued, published, pins, calls, hubVars, otherVars>>

(* getattr(self, 'scraping_session_id', self.current_session_id), main.py:456 *)
enrichment_session_id ==
  IF run.scraping_session_id # NoSession THEN run.scraping_session_id
  ELSE run.current_session_id

(* run_enrichment_phase, main.py:456-485 *)
enrichment_begin ==
  /\ run.pc = "enrich"
  /\ IF pins = 0 \/ ~run.pins_handler
     THEN /\ Status("failed",
                    IF pins = 0 THEN "No pins found in database to enrich"
                    ELSE "Pins handler not initialized", NoProgress)
          /\ sessions' = update_session_status(
                           Log(sessions, run.current_session_id,
                               <<IF pins = 0 THEN "No pins found in database to enrich"
                                 ELSE "Pins handler not initialized">>),
                           enrichment_session_id, "failed")
          /\ run' = [run EXCEPT !.pc = "enriched", !.result["enrich"] = "failed"]
     ELSE /\ Status("running", "Starting title enrichment", NoProgress)
          /\ sessions' = Log(sessions, run.current_session_id, <<"Starting title enrichment">>)
          /\ run' = [run EXCEPT !.pc = "enrich_call"]
  /\ UNCHANGED <<call, nops, callers, prompt_status, pins, calls, hubVars, otherVars>>

EnrichmentOutcomes == {"ok", "raises"}

(* run_enrichment_phase, main.py:500-530 *)
enrichment_call(out) ==
  /\ run.pc = "enrich_call"
  /\ calls' = Append(calls, "enrich_with_titles")
  /\ Status(IF out = "ok" THEN "completed" ELSE "failed",
            IF out = "ok" THEN "Title enrichment completed" ELSE "Enrichment phase error",
            IF out = "ok" THEN 100 ELSE NoProgress)
  /\ sessions' = update_session_status(
                   Log(sessions, run.current_session_id,
                       <<IF out = "ok" THEN "Title enrichment completed"
                         ELSE "Enrichment phase error">>),
                   enrichment_session_id,
                   IF out = "ok" THEN "completed" ELSE "failed")
  /\ run' = [run EXCEPT !.pc = "enriched",
                        !.result["enrich"] = IF out = "ok" THEN "ok" ELSE "failed"]
  /\ UNCHANGED <<call, nops, callers, prompt_status, pins, hubVars, otherVars>>

(* run_complete_workflow, main.py:584-601 *)
after_enrichment ==
  /\ run.pc = "enriched"
  /\ IF run.result["enrich"] = "ok"
     THEN /\ prompt_status' = "ready"
          /\ sessions' = Log(sessions, run.current_session_id, <<"=== WORKFLOW COMPLETED ===">>)
          /\ run' = [run EXCEPT !.pc = "cleanup", !.success = TRUE]
     ELSE /\ prompt_status' = "error"
          /\ run' = [run EXCEPT !.pc = "cleanup"]
          /\ UNCHANGED sessions
  /\ UNCHANGED <<statusVars, issued, published, pins, calls, hubVars, otherVars>>

CleanupOutcomes == {"ok", "raises"}

(* the finally clause, main.py:609-611, and cleanup, 613-620 *)
cleanup(out) ==
  /\ run.pc = "cleanup"
  /\ IF run.warmup_session
     THEN /\ calls' = Append(calls, "close")
          /\ sessions' = Log(sessions, run.current_session_id,
                             IF out = "ok" THEN <<"Cleaning up browser session...">>
                             ELSE <<"Cleaning up browser session...", "Cleanup error">>)
     ELSE UNCHANGED <<calls, sessions>>
  /\ run' = [run EXCEPT !.pc = "returned"]
  /\ UNCHANGED <<statusVars, issued, published, prompt_status, pins, hubVars, otherVars>>

(* the route puts the prompt of a failed workflow back to pending *)
route_check_resets ==
  /\ run.pc = "returned"
  /\ IF ~run.success
     THEN /\ prompt_status' = "pending"
          /\ run' = [run EXCEPT !.pc = "done"]
     ELSE /\ run' = [run EXCEPT !.pc = "validate"]
          /\ UNCHANGED prompt_status
  /\ UNCHANGED <<statusVars, issued, published, sessions, pins, calls, hubVars, otherVars>>

(* routes/main.py:51-72 *)
route_check ==
  /\ run.pc = "returned"
  /\ IF ~run.success
     THEN /\ prompt_status' = "error"
          /\ run' = [run EXCEPT !.pc = "done"]
     ELSE /\ run' = [run EXCEPT !.pc = "validate"]
          /\ UNCHANGED prompt_status
  /\ UNCHANGED <<statusVars, issued, published, sessions, pins, calls, hubVars, otherVars>>

ValidationOutcomes == {"ok", "false", "evaluator_raises", "evaluate_raises"}

(* the validation Session of main.py:175 with the lines logged to it *)
validation_session(out) ==
  LET sid == Len(sessions) + 1
      begun == Log(create_session(sessions, "validation"), sid,
                   <<"=== AI VALIDATION PHASE ===", "Starting AI validation">>)
  IN CASE out = "ok" ->
            update_session_status(
              Log(begun, sid, <<"AI validation completed successfully", "Results",
                                "AI validation completed", "Results">>),
              sid, "completed")
       [] out = "false" -> update_session_status(begun, sid, "failed")
       [] OTHER -> update_session_status(Log(begun, sid, <<"AI validation error">>),
                                         sid, "failed")

(* the validation ends without its outcome written to the prompt *)
run_ai_validation_workflow_unrecorded(out) ==
  /\ run.pc = "validate"
  /\ run' = [run EXCEPT !.pc = "done", !.result["evaluate"] = "failed"]
  /\ UNCHANGED <<statusVars, issued, published, prompt_status, sessions, pins, calls, hubVars, otherVars>>

(* run_ai_validation_workflow, main.py:147-238, and routes/main.py:73-81.    *)
(* Line 154 calls PromptDB.get_prompt_by_id: when the class has no such      *)
(* attribute the AttributeError is caught at line 229, where                 *)
(* self.current_session_id is the None of line 129, and the workflow returns *)
(* success False.  Past line 154: the Session of line 175, the evaluator     *)
(* (184, 189), and the outcome recorded at 199-200, 221-222 or 233.  The     *)
(* setStatus calls of lines 179-218 are not awaited: the coroutines never    *)
(* run.                                                                      *)
run_ai_validation_workflow(out) ==
  /\ run.pc = "validate"
  /\ IF ~Resolves("get_prompt_by_id")
     THEN /\ sessions' = Log(sessions, run.orchestrator_session_id, <<"AI validation error">>)
          /\ prompt_status' = "error"
          /\ run' = [run EXCEPT !.pc = "done", !.result["evaluate"] = "failed"]
          /\ UNCHANGED calls
     ELSE /\ calls' = calls \o (IF out = "evaluator_raises" THEN <<"AIEvaluator">>
                                ELSE <<"AIEvaluator", "evaluate_pins_for_prompt">>)
          /\ sessions' = validation_session(out)
          /\ prompt_status' = IF out = "ok" THEN "completed" ELSE "error"
          /\ run' = [run EXCEPT !.pc = "done",
                                !.orchestrator_session_id = Len(sessions) + 1,
                                !.result["evaluate"] = IF out = "ok" THEN "ok" ELSE "failed"]
  /\ UNCHANGED <<statusVars, issued, published, pins, hubVars, otherVars>>

(* ------------------ the WebSocket manager and its observers ------------ *)
(* services/websocket/manager.py (the NotificationHub), the attach handler  *)
(* routes/main.py:119-198 and the orchestrator's setStatus.  All of them    *)
(* are coroutines of one event loop: a step runs from one await to the      *)
(* next.  send_text hands the message to the socket when it is called and   *)
(* may then suspend the caller; a closed socket makes it raise.             *)
Sinks == {"w1", "w2"}
HubId == "p1"
Orchestrator == "orchestrator"
Owners == Sinks \cup {Orchestrator}
MaxUpdates == 1

(* no send_status_update / send_session_update call in progress *)
NoPub == [busy |-> FALSE, event |-> <<>>, connections |-> {}, todo |-> {}, failed |-> {}]

(* The messages of manager.py:55-60 and 97-102; by names the caller whose   *)
(* call built the message (the timestamp of the message tells the calls     *)
(* apart).  With the status_data of main.py:69-74:                          *)
LiveEvent(status, message) ==
  [type |-> "status_update", by |-> Orchestrator, status |-> status,
   message |-> message, messages |-> <<>>, session |-> 0]

(* with the status_data of routes/main.py:142-148 *)
CatchUpEvent(w, doc) ==
  [type |-> "status_update", by |-> w, status |-> doc.overall_status,
   message |-> NoMessage, messages |-> doc.messages, session |-> 0]

(* with the session_data of routes/main.py:155-161 *)
SessionEvent(w, sid) ==
  [type |-> "session_update", by |-> w, status |-> sessions[sid].status,
   message |-> NoMessage, messages |-> sessions[sid].log, session |-> sid]

(* the new connection takes the place of the id's connections *)
connect_replaces(ac, w, pid) ==
  [k \in DOMAIN ac \cup {pid} |-> IF k = pid THEN {w} ELSE ac[k]]

(* WebSocketManager.connect, manager.py:22-25 *)
connect(ac, w, pid) ==
  IF pid \in DOMAIN ac THEN [ac EXCEPT ![pid] = @ \cup {w}]
  ELSE [k \in DOMAIN ac \cup {pid} |-> IF k = pid THEN {w} ELSE ac[k]]

(* the socket is discarded and the id's entry is kept, empty or not *)
disconnect_keeps_entry(ac, w, pid) ==
  IF pid \notin DOMAIN ac THEN ac ELSE [ac EXCEPT ![pid] = @ \ {w}]

(* WebSocketManager.disconnect, manager.py:30-35 *)
disconnect(ac, w, pid) ==
  IF pid \notin DOMAIN ac THEN ac
  ELSE IF ac[pid] \ {w} = {} THEN [k \in DOMAIN ac \ {pid} |-> ac[k]]
  ELSE [ac EXCEPT ![pid] = @ \ {w}]

(* self.active_connections.get(prompt_id, set()), routes/main.py:129 *)
registered(ac, pid) == IF pid \in DOMAIN ac THEN ac[pid] ELSE {}

(* manager.py:76-77: disconnect every failed connection *)
RECURSIVE disconnect_all(_, _, _)
disconnect_all(ac, ws, pid) ==
  IF ws = {} THEN ac
  ELSE LET w == CHOOSE x \in ws : TRUE
       IN disconnect_all(disconnect(ac, w, pid), ws \ {w}, pid)

(* manager.py:68-73: one turn of the loop over the copied connections: the  *)
(* message is handed to connection c, or c is noted as failed               *)
SendTo(o, c) ==
  /\ received' = IF socket_state[c] = "open"
                 THEN [received EXCEPT ![c] = Append(@, pub[o].event)]
                 ELSE received
  /\ pub' = [pub EXCEPT ![o].todo = @ \ {c},
                        ![o].failed = IF socket_state[c] = "open" THEN @ ELSE @ \cup {c}]

(* a first send that raises ends the call: the other connections are not   *)
(* sent to                                                                  *)
Publish_raising(o, ac, ss, event) ==
  IF HubId \notin DOMAIN ac
  THEN /\ pub' = [pub EXCEPT ![o] = NoPub]
       /\ UNCHANGED received
  ELSE \E c \in ac[HubId] :
         /\ received' = IF ss[c] = "open"
                        THEN [received EXCEPT ![c] = Append(@, event)]
                        ELSE received
         /\ pub' = [pub EXCEPT ![o] =
                      [busy |-> TRUE, event |-> event, connections |-> ac[HubId],
                       todo |-> IF ss[c] = "open" THEN ac[HubId] \ {c} ELSE {},
                       failed |-> IF ss[c] = "open" THEN {} ELSE {c}]]

(* send_status_update / send_session_update, manager.py:50-70 and 92-112:   *)
(* return when the id has no entry, else copy the connections and send to   *)
(* the first of them (the set's iteration order is not specified)           *)
Publish(o, ac, ss, event) ==
  IF HubId \notin DOMAIN ac
  THEN /\ pub' = [pub EXCEPT ![o] = NoPub]
       /\ UNCHANGED received
  ELSE \E c \in ac[HubId] :
         /\ received' = IF ss[c] = "open"
                        THEN [received EXCEPT ![c] = Append(@, event)]
                        ELSE received
         /\ pub' = [pub EXCEPT ![o] =
                      [busy |-> TRUE, event |-> event, connections |-> ac[HubId],
                       todo |-> ac[HubId] \ {c},
                       failed |-> IF ss[c] = "open" THEN {} ELSE {c}]]

(* the loop of manager.py:68-73 resumed after a send *)
pub_send(o) ==
  /\ pub[o].busy
  /\ \E c \in pub[o].todo : SendTo(o, c)
  /\ UNCHANGED <<otherVars, statusVars, runVars, active_connections, socket_state, handler>>

(* the Sessions routes/main.py:153 reads, in the order they are sent *)
SessionIds == 1..Len(sessions)

(* the Sessions are not sent: the handler goes on to receive_text *)
SessionsFrom_none(w, ac, ss, k) ==
  /\ pub' = [pub EXCEPT ![w] = NoPub]
  /\ handler' = [handler EXCEPT ![w] = [pc |-> "listening", next |-> Len(sessions) + 1]]
  /\ UNCHANGED received

(* routes/main.py:153-166 from the k-th Session on, up to the first send:   *)
(* without a Session left, or with no entry for the id (every               *)
(* send_session_update returns at manager.py:92-94), the handler reaches    *)
(* receive_text at line 180                                                 *)
SessionsFrom(w, ac, ss, k) ==
  IF k \in SessionIds
  THEN /\ Publish(w, ac, ss, SessionEvent(w, k))
       /\ handler' = [handler EXCEPT ![w] = IF HubId \in DOMAIN ac
                                            THEN [pc |-> "catch_up", next |-> k + 1]
                                            ELSE [pc |-> "listening", next |-> k]]
  ELSE /\ pub' = [pub EXCEPT ![w] = NoPub]
       /\ handler' = [handler EXCEPT ![w] = [pc |-> "listening", next |-> k]]
       /\ UNCHANGED received

(* accept returns or raises; the reads of routes/main.py:137 (ObjectId of   *)
(* the path's id, the find on the status collection) return or raise        *)
ConnectOutcomes == {"ok", "accept_raises", "read_raises"}

(* routes/main.py:126-150: accept, register, read the status record and     *)
(* send it when there is one.  accept raising leads through the handler at  *)
(* 190 to the finally clause at 194-198; the read raising leads through the *)
(* handler at 168 to receive_text at 180.                                   *)
ws_connect(w, out) ==
  /\ handler[w].pc = "idle"
  /\ socket_state[w] = "new"
  /\ IF out = "accept_raises"
     THEN /\ socket_state' = [socket_state EXCEPT ![w] = "closed"]
          /\ active_connections' = disconnect(active_connections, w, HubId)
          /\ handler' = [handler EXCEPT ![w].pc = "done"]
          /\ UNCHANGED <<received, pub>>
     ELSE /\ socket_state' = [socket_state EXCEPT ![w] = "open"]
          /\ active_connections' = connect(active_connections, w, HubId)
          /\ IF out = "read_raises"
             THEN /\ handler' = [handler EXCEPT ![w].pc = "listening"]
                  /\ UNCHANGED <<received, pub>>
             ELSE IF get_workflow_progress(store, HubId).id # 0
             THEN /\ Publish(w, connect(active_connections, w, HubId),
                             [socket_state EXCEPT ![w] = "open"],
                             CatchUpEvent(w, get_workflow_progress(store, HubId)))
                  /\ handler' = [handler EXCEPT ![w] = [pc |-> "catch_up", next |-> 1]]
             ELSE SessionsFrom(w, connect(active_connections, w, HubId),
                               [socket_state EXCEPT ![w] = "open"], 1)
  /\ UNCHANGED <<otherVars, statusVars, runVars>>

(* a catch-up send returning (manager.py:76-79) and routes/main.py:153-166: *)
(* the failed connections are removed and the next Session is sent          *)
ws_catch_up(w) ==
  /\ handler[w].pc = "catch_up"
  /\ pub[w].busy /\ pub[w].todo = {}
  /\ active_connections' = disconnect_all(active_connections, pub[w].failed, HubId)
  /\ SessionsFrom(w, disconnect_all(active_connections, pub[w].failed, HubId),
                  socket_state, handler[w].next)
  /\ UNCHANGED <<otherVars, statusVars, runVars, socket_state>>

(* the client closes the connection *)
client_close(w) ==
  /\ socket_state[w] = "open"
  /\ socket_state' = [socket_state EXCEPT ![w] = "closed"]
  /\ UNCHANGED <<otherVars, statusVars, runVars, active_connections, received, handler, pub>>

(* the handler ends without the disconnect of its finally clause *)
ws_disconnect_without_cleanup(w) ==
  /\ handler[w].pc = "listening"
  /\ socket_state[w] = "closed"
  /\ handler' = [handler EXCEPT ![w].pc = "done"]
  /\ UNCHANGED <<otherVars, statusVars, runVars, active_connections, socket_state, received, pub>>

(* routes/main.py:180-198: receive_text raises, the loop breaks and the     *)
(* finally clause disconnects                                               *)
ws_disconnect(w) ==
  /\ handler[w].pc = "listening"
  /\ socket_state[w] = "closed"
  /\ active_connections' = disconnect(active_connections, w, HubId)
  /\ handler' = [handler EXCEPT ![w].pc = "done"]
  /\ UNCHANGED <<otherVars, statusVars, runVars, socket_state, received, pub>>

(* setStatus sending the WebSocket update first and leaving the update of   *)
(* the record for later                                                     *)
orch_setStatus_publish_first(status, message) ==
  /\ ~pub[Orchestrator].busy
  /\ Len(issued) < MaxUpdates
  /\ issued' = Append(issued, [status |-> status, message |-> message])
  /\ published' = Append(published, [status |-> status, message |-> message])
  /\ Publish(Orchestrator, active_connections, socket_state, LiveEvent(status, message))
  /\ UNCHANGED <<store, clock, call, nops, callers, prompt_status, sessions, pins, calls,
                 run, active_connections, socket_state, handler, otherVars>>

(* WorkflowOrchestrator.setStatus, main.py:59-79 up to the first send: the  *)
(* update is applied, or update_step_status raises and nothing is sent      *)
orch_setStatus(status, message) ==
  /\ ~pub[Orchestrator].busy
  /\ Len(issued) < MaxUpdates
  /\ issued' = Append(issued, [status |-> status, message |-> message])
  /\ store' = setStatus(store, HubId, status, message, NoProgress, clock)
  /\ clock' = setStatus_clock(store, HubId, status, clock)
  /\ IF get_one(store, HubId).id = 0
     THEN UNCHANGED <<published, received, pub>>
     ELSE /\ published' = Append(published, [status |-> status, message |-> message])
          /\ Publish(Orchestrator, active_connections, socket_state,
                     LiveEvent(status, message))
  /\ UNCHANGED <<call, nops, callers, prompt_status, sessions, pins, calls, run,
                 active_connections, socket_state, handler, otherVars>>

(* manager.py:76-79: send_status_update returns to setStatus *)
orch_published ==
  /\ pub[Orchestrator].busy /\ pub[Orchestrator].todo = {}
  /\ active_connections' = disconnect_all(active_connections, pub[Orchestrator].failed, HubId)
  /\ pub' = [pub EXCEPT ![Orchestrator] = NoPub]
  /\ UNCHANGED <<otherVars, statusVars, runVars, socket_state, received, handler>>

(* no observer, no publish in progress *)
HubIdle ==
  /\ active_connections = <<>>
  /\ socket_state = [w \in Sinks |-> "new"]
  /\ received = [w \in Sinks |-> <<>>]
  /\ handler = [w \in Sinks |-> [pc |-> "idle", next |-> 0]]
  /\ pub = [o \in Owners |-> NoPub]

(* ------------------- the manager with two instance ids ------------------ *)
(* Sockets attach to either id of PromptIds and each id has its own caller   *)
(* of send_status_update (the orchestrator of its run): pub[pid] is the call *)
(* in progress for pid.  A socket is registered under the id of its path     *)
(* only (routes/main.py:126), kept in handler[w].prompt_id.                  *)
MaxPublishes == 2

(* the message of manager.py:55-60 for id pid *)
IdEvent(pid) == [type |-> "status_update", prompt_id |-> pid]

(* every registered connection, whatever its id *)
connections_of_every_id(ac, pid) == UNION {ac[k] : k \in DOMAIN ac}

(* manager.py:63: self.active_connections[prompt_id].copy() *)
connections(ac, pid) == ac[pid]

(* websocket_endpoint up to receive_text with nothing to catch up on:       *)
(* accept and register, manager.py:20-25                                    *)
hub_connect(w, pid) ==
  /\ handler[w].pc = "idle"
  /\ socket_state[w] = "new"
  /\ socket_state' = [socket_state EXCEPT ![w] = "open"]
  /\ active_connections' = connect(active_connections, w, pid)
  /\ handler' = [handler EXCEPT ![w] = [pc |-> "listening", next |-> 0, prompt_id |-> pid]]
  /\ UNCHANGED <<otherVars, statusVars, runVars, received, pub>>

(* routes/main.py:180-198: receive_text raises and the finally clause       *)
(* disconnects the socket from the id of its path                           *)
hub_disconnect(w) ==
  /\ handler[w].pc = "listening"
  /\ socket_state[w] = "closed"
  /\ active_connections' = disconnect(active_connections, w, handler[w].prompt_id)
  /\ handler' = [handler EXCEPT ![w].pc = "done"]
  /\ UNCHANGED <<otherVars, statusVars, runVars, socket_state, received, pub>>

(* send_status_update(pid), manager.py:50-70, up to the first send *)
send_status_update(pid) ==
  /\ ~pub[pid].busy
  /\ Len(published) < MaxPublishes
  /\ published' = Append(published, [prompt_id |-> pid])
  /\ IF pid \notin DOMAIN active_connections
     THEN UNCHANGED <<received, pub>>
     ELSE \E c \in connections(active_connections, pid) :
            /\ received' = IF socket_state[c] = "open"
                           THEN [received EXCEPT ![c] = Append(@, IdEvent(pid))]
                           ELSE received
            /\ pub' = [pub EXCEPT ![pid] =
                         [busy |-> TRUE, event |-> IdEvent(pid),
                          connections |-> connections(active_connections, pid),
                          todo |-> connections(active_connections, pid) \ {c},
                          failed |-> IF socket_state[c] = "open" THEN {} ELSE {c}]]
  /\ UNCHANGED <<otherVars, statusVars, prompt_status, sessions, pins, calls, run, issued,
                 active_connections, socket_state, handler>>

(* manager.py:75-79: the failed connections are disconnected from pid and   *)
(* the call returns                                                         *)
send_status_update_return(pid) ==
  /\ pub[pid].busy /\ pub[pid].todo = {}
  /\ active_connections' = disconnect_all(active_connections, pub[pid].failed, pid)
  /\ pub' = [pub EXCEPT ![pid] = NoPub]
  /\ UNCHANGED <<otherVars, statusVars, runVars, socket_state, received, handler>>

(* ---------------------------- the query routes ------------------------- *)
(* GET /prompts/{id}/status and GET /prompts/{id}/pins, routes/main.py      *)
(* 200-307; prompts is the set of ids in the prompts collection.            *)
MaxQueries == 3

(* what the caller gets when the route's try block raised exc: the clause   *)
(* except Exception (250-254, 303-307) catches every exception of the       *)
(* block, an HTTPException included, and raises HTTPException 500           *)
except_Exception(exc) == "500 Internal Server Error"

(* the try block of either route up to its return: the lookup of line 211   *)
(* or 266 raises AttributeError when PromptDB lacks the method, and a       *)
(* missing prompt raises HTTPException 404 at line 213 or 268               *)
route_try(ps, pid) ==
  IF ~Resolves("get_prompt_by_id") THEN except_Exception("AttributeError")
  ELSE IF pid \notin ps THEN except_Exception("404 Not Found")
  ELSE "200 OK"

(* get_prompt_status, routes/main.py:200-254 *)
get_prompt_status(pid) ==
  /\ Len(responses) < MaxQueries
  /\ responses' = Append(responses, [route |-> "status", prompt_id |-> pid,
                                     status |-> route_try(prompts, pid)])
  /\ UNCHANGED <<statusVars, runVars, hubVars, prompts, pin_docs, evaluation,
                 session_timestamp>>

(* get_prompt_pins, routes/main.py:256-307 *)
get_prompt_pins(pid) ==
  /\ Len(responses) < MaxQueries
  /\ responses' = Append(responses, [route |-> "pins", prompt_id |-> pid,
                                     status |-> route_try(prompts, pid)])
  /\ UNCHANGED <<statusVars, runVars, hubVars, prompts, pin_docs, evaluation,
                 session_timestamp>>

(* the started_at values of the status documents already stored *)
InitTimes == {1, 2}
(* the clock reads later than every started_at already stored *)
InitClock == Cardinality(InitTimes) + 1

(* ------------------------- the sessions collection -------------------- *)
(* SessionDB, sessions.py:23-132.  session_timestamp[i] is the timestamp    *)
(* field of the i-th Session created: SessionSchema sets it on creation     *)
(* (line 13) and update_session_status and add_session_log set it again     *)
(* ($set timestamp, lines 83 and 104).  The clock advances with every call. *)
MaxSessions == 2
MaxSessionOps == 3

(* insert Session i into ids, which is ascending by timestamp; a Session    *)
(* goes after those with an equal timestamp                                 *)
RECURSIVE InsertAsc(_, _, _)
InsertAsc(ids, i, ts) ==
  IF ids = <<>> THEN <<i>>
  ELSE IF ts[ids[1]] > ts[i] THEN <<i>> \o ids
  ELSE <<ids[1]>> \o InsertAsc(Tail(ids), i, ts)

RECURSIVE SortAsc(_, _)
SortAsc(n, ts) == IF n = 0 THEN <<>> ELSE InsertAsc(SortAsc(n - 1, ts), n, ts)

(* get_sessions_by_prompt, sessions.py:132 with base.py:103-112: the ids of *)
(* the instance's Sessions sorted by timestamp, ascending                   *)
get_sessions_by_prompt(ts) == SortAsc(Len(ts), ts)

SessionOpsLeft == clock < InitClock + MaxSessionOps

(* SessionDB.create_session, sessions.py:29-42 *)
session_create(stage) ==
  /\ SessionOpsLeft /\ Len(sessions) < MaxSessions
  /\ sessions' = create_session(sessions, stage)
  /\ session_timestamp' = Append(session_timestamp, clock)
  /\ clock' = clock + 1
  /\ UNCHANGED <<store, call, nops, callers, prompt_status, pins, calls, run, issued,
                 published, hubVars, prompts, responses, pin_docs, evaluation>>

(* SessionDB.add_session_log, sessions.py:89-106 *)
session_add_log(sid, line) ==
  /\ SessionOpsLeft /\ sid \in 1..Len(sessions)
  /\ sessions' = add_session_log(sessions, sid, <<line>>)
  /\ session_timestamp' = [session_timestamp EXCEPT ![sid] = clock]
  /\ clock' = clock + 1
  /\ UNCHANGED <<store, call, nops, callers, prompt_status, pins, calls, run, issued,
                 published, hubVars, prompts, responses, pin_docs, evaluation>>

(* SessionDB.update_session_status, sessions.py:67-86 *)
session_update_status(sid, status) ==
  /\ SessionOpsLeft /\ sid \in 1..Len(sessions)
  /\ sessions' = update_session_status(sessions, sid, status)
  /\ session_timestamp' = [session_timestamp EXCEPT ![sid] = clock]
  /\ clock' = clock + 1
  /\ UNCHANGED <<store, call, nops, callers, prompt_status, pins, calls, run, issued,
                 published, hubVars, prompts, responses, pin_docs, evaluation>>

(* ------------------------------ the evaluator -------------------------- *)
(* AIEvaluator.evaluate_pins_for_prompt, evaluator.py:78-137, on the pins   *)
(* of one instance: pin_docs[i] is the status of the i-th pin.              *)
MaxItems == 3
PinStatuses == {"ready", "approved", "disqualified"}

(* evaluate_pin returns a validation with one of the two statuses or raises *)
ItemOutcomes == {"approved", "disqualified", "raises"}

(* what the call has counted, and the pins as it has left them *)
Counted(pd) ==
  [raised |-> FALSE, success |-> TRUE, evaluated_count |-> 0, approved_count |-> 0,
   disqualified_count |-> 0, pins |-> pd]

(* the loop of evaluator.py:99-129 from the i-th pin on, over the pins that *)
(* were ready when line 85 read them: an item whose evaluation raises is    *)
(* skipped (127-129), the others are updated and counted (113-125)          *)
RECURSIVE evaluate_from(_, _, _, _)
evaluate_from(pd, outs, i, acc) ==
  IF i > Len(pd) THEN acc
  ELSE IF pd[i] # "ready" \/ outs[i] = "raises" THEN evaluate_from(pd, outs, i + 1, acc)
  ELSE evaluate_from(pd, outs, i + 1,
         [acc EXCEPT !.pins[i] = outs[i],
                     !.evaluated_count = @ + 1,
                     !.approved_count = IF outs[i] = "approved" THEN @ + 1 ELSE @,
                     !.disqualified_count = IF outs[i] = "approved" THEN @ ELSE @ + 1])

(* evaluate_pins_for_prompt: the lookup of line 79 raises AttributeError    *)
(* when PromptDB lacks the method, a missing prompt raises ValueError (81), *)
(* no ready pin returns zero counts (86-93)                                 *)
evaluate_pins_for_prompt(ps, pid, pd, outs) ==
  IF ~Resolves("get_prompt_by_id") \/ pid \notin ps
  THEN [Counted(pd) EXCEPT !.raised = TRUE, !.success = FALSE]
  ELSE evaluate_from(pd, outs, 1, Counted(pd))

(* one call of the evaluator for instance p1; outs[i] is what evaluating    *)
(* the i-th pin does if it is evaluated                                     *)
evaluate(outs) ==
  /\ ~evaluation.called
  /\ evaluation' = [called |-> TRUE, before |-> pin_docs, outs |-> outs,
                    result |-> evaluate_pins_for_prompt(prompts, RunId, pin_docs, outs)]
  /\ pin_docs' = evaluate_pins_for_prompt(prompts, RunId, pin_docs, outs).pins
  /\ UNCHANGED <<statusVars, runVars, hubVars, prompts, responses, session_timestamp>>

(* no evaluation has run *)
NoEvaluation == [called |-> FALSE]

(* no query answered, no pin, no evaluation, no Session timestamp *)
OtherIdle ==
  /\ prompts = {RunId}
  /\ responses = <<>>
  /\ pin_docs = <<>>
  /\ evaluation = NoEvaluation
  /\ session_timestamp = <<>>

(* ---------------------------- specifications --------------------------- *)
(* Status documents the durable collection can hold: written by             *)
(* create_workflow_status (zero counters) and updated with messages.        *)
InitHistories == {<<>>, <<"m1">>, <<"m1", "m2">>}

InitDoc(i, pid, h, t) ==
  [id |-> i, prompt_id |-> pid,
   overall_status |-> IF h = <<>> THEN "pending" ELSE "running",
   current_step |-> Len(h), total_steps |-> Len(h), progress |-> 0,
   messages |-> h, started_at |-> t, completed_at |-> NoTime]

InitStores(pids, hists) ==
  UNION {{[i \in 1..n |-> InitDoc(i, ps[i], hs[i], ts[i])] :
            ps \in [1..n -> pids], hs \in [1..n -> hists],
            ts \in [1..n -> InitTimes]} : n \in 0..MaxInitDocs}

(* documents inserted one after the other, started_at in insertion order *)
InOrder(s) == \A i \in 1..Len(s) : s[i].started_at = IF i = 1 THEN 1 ELSE 2

InitCommon ==
  /\ clock = InitClock
  /\ call = [p \in Procs |-> IdleCall]
  /\ nops = 0
  /\ sessions = <<>>
  /\ pins = 0
  /\ calls = <<>>
  /\ issued = <<>>
  /\ published = <<>>

(* no background task: the prompt keeps the status create_prompt gave it *)
InitNoRun ==
  /\ prompt_status = "pending"
  /\ run = RunIdle

(* Concurrent callers on the documents of one instance id *)
Init ==
  /\ InitCommon
  /\ InitNoRun
  /\ HubIdle
  /\ OtherIdle
  /\ store \in {s \in InitStores(CallIds, {<<>>, <<"m1">>}) : InOrder(s)}
  /\ callers = Procs

(* One caller: every call runs to its end before the next one starts *)
InitSeq ==
  /\ InitCommon
  /\ InitNoRun
  /\ HubIdle
  /\ OtherIdle
  /\ store \in InitStores(PromptIds, InitHistories)
  /\ callers = {1}

Next ==
  \/ \E p \in Procs, pid \in CallIds : create_lookup(p, pid)
  \/ \E p \in Procs : create_delete(p)
  \/ \E p \in Procs, pid \in CallIds, status \in Statuses,
        message \in Messages \cup {NoMessage}, progress \in Progresses \cup {NoProgress} :
        update_read(p, pid, status, message, progress)
  \/ \E p \in Procs : update_create_lookup(p)
  \/ \E p \in Procs : update_write(p)
  \/ \E p \in Procs, pid \in CallIds : cleanup_find(p, pid)
  \/ \E p \in Procs : cleanup_delete(p)

Spec == Init /\ [][Next]_vars

SpecSeq == InitSeq /\ [][Next]_vars

(* One accepted prompt (routes/main.py:98: status pending, a fresh id with   *)
(* no status record, no Session and no pin) and its background task.         *)
InitRun ==
  /\ InitCommon
  /\ HubIdle
  /\ OtherIdle
  /\ store = <<>>
  /\ callers = {}
  /\ prompt_status = "pending"
  /\ run = [RunIdle EXCEPT !.pc = "start"]

NextRun ==
  \/ route_start
  \/ run_pinterest_workflow
  \/ \E out \in InitOutcomes : initialize_session(out)
  \/ after_initialize
  \/ warmup_begin
  \/ \E out \in WarmupOutcomes : warmup_call(out)
  \/ scraping_begin
  \/ \E out \in ScrapingOutcomes, n \in 1..MaxPins : scraping_call(out, n)
  \/ after_scraping
  \/ enrichment_begin
  \/ \E out \in EnrichmentOutcomes : enrichment_call(out)
  \/ after_enrichment
  \/ \E out \in CleanupOutcomes : cleanup(out)
  \/ route_check
  \/ \E out \in ValidationOutcomes : run_ai_validation_workflow(out)

SpecRun == InitRun /\ [][NextRun]_vars

(* The background task under the event loop: a task that can take a step   *)
(* takes it (every collaborator call returns or raises).                    *)
SpecRunFair == InitRun /\ [][NextRun]_vars /\ WF_vars(NextRun)

(* Observers attaching to and leaving instance p1 while its orchestrator    *)
(* issues status updates.  The status collection holds no record of p1 or   *)
(* one record; the sessions collection holds no Session of p1 or one.       *)
InitHub ==
  /\ clock = InitClock
  /\ call = [p \in Procs |-> IdleCall]
  /\ nops = 0
  /\ callers = {}
  /\ pins = 0
  /\ calls = <<>>
  /\ issued = <<>>
  /\ published = <<>>
  /\ prompt_status = "pending"
  /\ run = RunIdle
  /\ store \in {<<>>, <<InitDoc(1, HubId, <<>>, 1)>>}
  /\ sessions \in {<<>>, create_session(<<>>, "warmup")}
  /\ HubIdle
  /\ OtherIdle

(* the orchestrator's messages differ from one update to the next *)
NextMessage == IF Len(issued) % 2 = 0 THEN "m1" ELSE "m2"

NextHub ==
  \/ \E w \in Sinks, out \in ConnectOutcomes : ws_connect(w, out)
  \/ \E w \in Sinks : ws_catch_up(w)
  \/ \E o \in Owners : pub_send(o)
  \/ \E w \in Sinks : client_close(w)
  \/ \E w \in Sinks : ws_disconnect(w)
  \/ \E status \in Statuses : orch_setStatus(status, NextMessage)
  \/ orch_published

SpecHub == InitHub /\ [][NextHub]_vars

(* ------------------------------- claims -------------------------------- *)
(* the steps that end a call, told by the caller's position *)
IsUpdateWrite(p) == call[p].pc = "u_write" /\ call'[p].pc = "idle"
IsCleanupDelete(p) == call[p].pc = "k_delete" /\ call'[p].pc = "idle"
(* a step in which a call starts (its first read of the collection) *)
IsStart(p, f) ==
  /\ nops' = nops + 1
  /\ call[p].pc = "idle"
  /\ call'[p].fn = f
  /\ \A q \in Procs \ {p} : call'[q] = call[q]

(* C1: over a sequence of update_step_status calls on one instance id,     *)
(* current_step after a call is at least current_step before it, and       *)
(* total_steps >= current_step holds after every update.                   *)
C1_MonotonicSteps ==
  [][\A p \in Procs : IsUpdateWrite(p) =>
       LET before == get_workflow_progress(store, call[p].pid)
           after == get_workflow_progress(store', call[p].pid)
       IN /\ after.current_step >= before.current_step
          /\ after.total_steps >= after.current_step]_vars

(* two updates with a message have been applied to a record of two messages *)
C1_Witness ==
  \E p \in Procs :
    /\ call[p].fn = "update" /\ call[p].pc = "idle" /\ call[p].retOk
    /\ get_workflow_progress(store, "p1").current_step = 4
    /\ get_workflow_progress(store, "p1").total_steps = 4

(* C2: a create_workflow_status call whose lookup found no record (each of *)
(* k concurrent calls on an id without a record) ends with exactly one     *)
(* record for the id, and returns the id of that record.                   *)
C2_IdempotentCreation ==
  [][\A p \in Procs :
       (call[p].fn = "create" /\ call[p].pc # "idle" /\ call'[p].pc = "idle") =>
         /\ ~call'[p].raised
         /\ Cardinality(Matching(store', call[p].pid)) = 1
         /\ call'[p].retId = get_one(store', call[p].pid).id]_vars

C4_AtMostOneAfterCreate ==
  \A p \in Procs :
    (call[p].fn = "create" /\ call[p].pc = "idle" /\ ~call[p].raised) =>
      Cardinality(Matching(store, call[p].pid)) <= 1

(* C5: a create_workflow_status call made alone returns the id of the      *)
(* existing record and leaves the store unchanged; when there is none it   *)
(* inserts exactly one record: zero counters, zero progress, empty         *)
(* history, status pending, no completed_at.                               *)
C5_SequentialCreate ==
  [][\A p \in callers :
       /\ (IsStart(p, "create") /\ get_one(store, call'[p].pid).id # 0) =>
            /\ store' = store
            /\ call'[p].pc = "idle" /\ ~call'[p].raised
            /\ call'[p].retId = get_one(store, call'[p].pid).id
       /\ (call[p].fn = "create" /\ call[p].pc # "idle" /\ call'[p].pc = "idle") =>
            LET new == find_all(store', call[p].pid) IN
            /\ ~call'[p].raised
            /\ Len(new) = 1
            /\ new[1].current_step = 0 /\ new[1].total_steps = 0
            /\ new[1].progress = 0 /\ new[1].messages = <<>>
            /\ new[1].overall_status = "pending" /\ new[1].completed_at = NoTime
            /\ call'[p].retId = new[1].id
            /\ Len(store') = Len(store) + 1]_vars

(* C6: cleanup_duplicate_status_documents on an id with n >= 2 records     *)
(* keeps exactly one: a record with the longest history and, among those,  *)
(* the most recent started_at; it deletes the other n-1, returns n-1, and  *)
(* get_workflow_progress then returns the kept record.  With 0 or 1        *)
(* records it deletes nothing and returns 0.                               *)
C6_Cleanup ==
  [][\A p \in callers :
       /\ (IsStart(p, "cleanup") /\ Len(find_all(store, call'[p].pid)) <= 1) =>
            /\ store' = store
            /\ call'[p].pc = "idle" /\ call'[p].retN = 0
       /\ (IsStart(p, "cleanup") /\ Len(find_all(store, call'[p].pid)) >= 2) =>
            /\ store' = store /\ call'[p].pc = "k_delete"
       /\ IsCleanupDelete(p) =>
            LET docs == find_all(store, call[p].pid)
                left == find_all(store', call[p].pid)
            IN /\ Len(left) = 1
               /\ \E i \in 1..Len(docs) : docs[i] = left[1]
               /\ \A i \in 1..Len(docs) :
                    \/ Len(docs[i].messages) < Len(left[1].messages)
                    \/ /\ Len(docs[i].messages) = Len(left[1].messages)
                       /\ docs[i].started_at <= left[1].started_at
               /\ call'[p].retN = Len(docs) - 1
               /\ Len(store') = Len(store) - (Len(docs) - 1)
               /\ get_workflow_progress(store', call[p].pid) = left[1]
               /\ \A q \in PromptIds \ {call[p].pid} :
                    find_all(store', q) = find_all(store, q)]_vars

(* the cleanup has deleted a duplicate and kept the record with a history  *)
C6_Witness ==
  \E p \in Procs :
    /\ call[p].fn = "cleanup" /\ call[p].pc = "idle" /\ call[p].retN >= 1
    /\ Len(find_all(store, "p1")) = 1
    /\ Len(get_workflow_progress(store, "p1").messages) = 2

(* C7: update_step_status always overwrites overall_status; a message is   *)
(* appended to the end of the history and current_step grows by exactly 1, *)
(* with total_steps raised to it when lower; when no record exists one is  *)
(* created first, so that get_workflow_progress is non-empty afterwards    *)
(* and reflects the update.                                                *)
C7_Update ==
  [][\A p \in callers :
       (call[p].fn = "update" /\ call[p].pc # "idle" /\ call'[p].pc = "idle") =>
         LET before == get_workflow_progress(store, call[p].pid)
             after == get_workflow_progress(store', call[p].pid)
             m == call[p].message
         IN /\ ~call'[p].raised
            /\ after.id # 0
            /\ after.overall_status = call[p].status
            /\ m # NoMessage =>
                 /\ after.messages = Append(before.messages, m)
                 /\ after.current_step = before.current_step + 1
                 /\ after.total_steps =
                      IF before.total_steps < after.current_step
                      THEN after.current_step ELSE before.total_steps]_vars

(* C8: completed_at is set once: an update never changes a completed_at    *)
(* that is set, and an update whose status is not completed never sets it. *)
C8_CompletedAtOnce ==
  [][\A p \in callers : IsUpdateWrite(p) =>
       LET before == get_workflow_progress(store, call[p].pid)
           after == get_workflow_progress(store', call[p].pid)
       IN /\ before.completed_at # NoTime => after.completed_at = before.completed_at
          /\ call[p].status # "completed" => after.completed_at = before.completed_at]_vars

(* the Sessions of the stage phase P records its outcome on *)
SessionsOf(P) == {i \in 1..Len(sessions) : sessions[i].stage = StageOf(P)}
PhaseFailed(P) == run.result[P] = "failed"

(* C9: when a phase has failed no collaborator of a later phase is invoked, *)
(* the failed phase's Session is failed, the Session of an earlier phase    *)
(* that succeeded (and shares it with no failed phase) is still ready or    *)
(* completed, and the finished run leaves the instance with status error -  *)
(* for every phase, a failed warmup followed by collect included.           *)
C9_PhaseFailureAbort ==
  /\ \A i, j \in 1..Len(Phases) :
        (i < j /\ PhaseFailed(Phases[i])) =>
          \A k \in 1..Len(calls) : CollaboratorPhase(calls[k]) # Phases[j]
  /\ \A P \in PhaseSet :
        PhaseFailed(P) => \A i \in SessionsOf(P) : sessions[i].status = "failed"
  /\ \A P \in PhaseSet :
        (run.result[P] = "ok" /\ ~ \E Q \in PhaseSet : StageOf(Q) = StageOf(P) /\ PhaseFailed(Q)) =>
          \A i \in SessionsOf(P) : sessions[i].status \in {"ready", "completed"}
  /\ (run.pc = "done" /\ \E P \in PhaseSet : PhaseFailed(P)) => prompt_status = "error"

C11_TerminatesCompletedOrError ==
  /\ <>(run.pc = "done")
  /\ [](run.pc = "done" => prompt_status \in {"completed", "error"})

(* the task has terminated after a collect phase that failed, with the      *)
(* browser session released, and the instance status is error               *)
C11_Witness ==
  /\ run.pc = "done"
  /\ run.result["collect"] = "failed"
  /\ calls # <<>> /\ calls[Len(calls)] = "close"
  /\ prompt_status = "error"

(* C12: whenever the run has terminated with instance status error, the     *)
(* StatusRecord of the instance has overall status failed and its last      *)
(* message is a failure message the orchestrator issued.                    *)
C12_FailureRecorded ==
  (run.pc = "done" /\ prompt_status = "error") =>
    /\ get_one(store, RunId).id # 0
    /\ get_one(store, RunId).overall_status = "failed"
    /\ get_one(store, RunId).messages # <<>>
    /\ \E i \in 1..Len(issued) :
          /\ issued[i].status = "failed"
          /\ issued[i].message =
               get_one(store, RunId).messages[Len(get_one(store, RunId).messages)]

(* C13: the collection workflow returns only through its cleanup: on every  *)
(* path the browser session, if one was created, is closed before the run   *)
(* returns, and the step that closes it - whether close returns or raises - *)
(* changes neither the workflow's result nor the instance status.           *)
C13_GuaranteedCleanup ==
  /\ [](run.pc \in {"returned", "validate", "done"} /\ run.warmup_session =>
          \E k \in 1..Len(calls) : calls[k] = "close")
  /\ [][(run.pc # "returned" /\ run'.pc = "returned") =>
          /\ run.pc = "cleanup"
          /\ run.warmup_session => calls' = Append(calls, "close")
          /\ run'.success = run.success
          /\ run'.result = run.result
          /\ prompt_status' = prompt_status]_vars

(* the workflow has returned early after an empty collect, the browser      *)
(* session was closed last, and the close raised                            *)
C13_Witness ==
  /\ run.pc = "returned"
  /\ run.result["collect"] = "failed" /\ run.pin_ids = 0
  /\ calls[Len(calls)] = "close"
  /\ \E i \in 1..Len(sessions) :
        \E k \in 1..Len(sessions[i].log) : sessions[i].log[k] = "Cleanup error"
  /\ ~run.success

(* the position of a phase in the fixed order *)
PhaseIdx(P) == CHOOSE i \in 1..Len(Phases) : Phases[i] = P

(* the positions in calls of the phases' collaborators (close is no phase) *)
PhaseCalls == {k \in 1..Len(calls) : CollaboratorPhase(calls[k]) \in PhaseSet}

(* C14: the phases' collaborators are invoked in the fixed order initialize,*)
(* warmup, collect, enrich, evaluate: never one of an earlier phase after   *)
(* one of a later phase, none twice in a run, and none before every earlier *)
(* phase has finished with a result.                                        *)
C14_PhaseOrder ==
  /\ \A i, j \in PhaseCalls :
        i < j => /\ PhaseIdx(CollaboratorPhase(calls[i])) <= PhaseIdx(CollaboratorPhase(calls[j]))
                 /\ calls[i] # calls[j]
  /\ \A k \in PhaseCalls :
        \A i \in 1..Len(Phases) :
           i < PhaseIdx(CollaboratorPhase(calls[k])) => run.result[Phases[i]] # "none"
  /\ \A i \in 1..Len(Phases) :
        run.result[Phases[i]] = "ok" =>
           \A j \in 1..Len(Phases) : j < i => run.result[Phases[j]] # "none"

(* initialize, warmup, collect and enrich have run, each collaborator once, *)
(* in this order                                                            *)
C14_Witness ==
  /\ Len(calls) >= 6
  /\ [k \in 1..6 |-> calls[k]] =
       <<"initialize_browser", "login", "feed_algorithm", "goto", "scrape_feed",
         "enrich_with_titles">>
  /\ run.result["enrich"] = "ok"

(* C15: for every phase whose collaborator has been invoked a running       *)
(* status update was applied to the StatusRecord and published before, and  *)
(* once the phase has ended a completed or failed update was applied and    *)
(* published after it.                                                      *)
C15_StatusAroundPhases ==
  \A P \in PhaseSet :
    (\E k \in PhaseCalls : CollaboratorPhase(calls[k]) = P) =>
      /\ get_one(store, RunId).id # 0
      /\ \E i \in 1..Len(published) :
            /\ published[i].status = "running"
            /\ run.result[P] # "none" =>
                 \E j \in 1..Len(published) :
                    i < j /\ published[j].status \in {"completed", "failed"}

(* C16: at the end of a run the message history of the instance's           *)
(* StatusRecord equals the sequence of messages the orchestrator issued, in *)
(* issue order, none missing and none duplicated.                           *)
C16_HistoryEqualsIssued ==
  run.pc = "done" =>
    /\ get_one(store, RunId).id # 0
    /\ get_one(store, RunId).messages = [i \in 1..Len(issued) |-> issued[i].message]

(* C17: a run in which initialize and warmup succeed, collect returns 3     *)
(* items and enrich succeeds ends with instance status completed and a      *)
(* StatusRecord that is completed with progress 100 and current_step equal  *)
(* to total_steps.                                                          *)
C17_RoundTrip ==
  (/\ run.pc = "done"
   /\ run.result["initialize"] = "ok" /\ run.result["warmup"] = "ok"
   /\ run.result["collect"] = "ok" /\ run.pin_ids = 3
   /\ run.result["enrich"] = "ok") =>
     /\ prompt_status = "completed"
     /\ get_workflow_progress(store, RunId).id # 0
     /\ get_workflow_progress(store, RunId).overall_status = "completed"
     /\ get_workflow_progress(store, RunId).progress = 100
     /\ get_workflow_progress(store, RunId).current_step =
          get_workflow_progress(store, RunId).total_steps

(* ------------------------- claims on the hub --------------------------- *)
(* a message of the call in progress of owner o is among those sink c got   *)
Received(c, o) == \E k \in 1..Len(received[c]) : received[c][k] = pub[o].event

(* the step in which the call in progress of owner o returns *)
Returns(o) == pub[o].busy /\ pub[o].todo = {} /\ pub'[o] # pub[o]

(* C18: when a send_status_update or send_session_update call returns,      *)
(* every sink it copied whose delivery did not raise has received the       *)
(* event, the sinks whose delivery raised - and no others - are removed     *)
(* from the registry, and a call with every send done can return.           *)
C18_DeadObserverIsolation ==
  /\ [](pub[Orchestrator].busy /\ pub[Orchestrator].todo = {} => ENABLED orch_published)
  /\ [][\A o \in Owners :
          Returns(o) =>
            /\ \A c \in pub[o].connections \ pub[o].failed : Received(c, o)
            /\ registered(active_connections', HubId) =
                 registered(active_connections, HubId) \ pub[o].failed
         ]_vars

(* the orchestrator's publish to two subscribed sinks has sent to both: the *)
(* delivery to w1 raised, w2 received the event, both are still registered  *)
C18_Witness ==
  /\ pub[Orchestrator].busy /\ pub[Orchestrator].todo = {}
  /\ pub[Orchestrator].connections = {"w1", "w2"}
  /\ pub[Orchestrator].failed = {"w1"}
  /\ Received("w2", Orchestrator) /\ ~Received("w1", Orchestrator)
  /\ registered(active_connections, HubId) = {"w1", "w2"}

(* the subscribe of sink w has completed and its sink has not failed *)
Subscribed(w) == handler[w].pc \in {"catch_up", "listening"} /\ socket_state[w] = "open"

(* C19: a publish call copies every sink whose subscribe completed before   *)
(* the call started, and every copied sink the call has got to and whose    *)
(* sink has not failed has received the event - under every interleaving of *)
(* the subscribes, unsubscribes and publish calls.                          *)
C19_NoMissedTransitions ==
  /\ [](\A o \in Owners : pub[o].busy =>
          \A w \in pub[o].connections \ pub[o].todo :
             socket_state[w] = "open" => Received(w, o))
  /\ [][/\ published' # published =>
             \A w \in Sinks : Subscribed(w) =>
                pub'[Orchestrator].busy /\ w \in pub'[Orchestrator].connections
        /\ \A o \in Owners :
             (pub'[o].busy /\ pub'[o].event # pub[o].event) =>
                \A w \in Sinks : Subscribed(w) => w \in pub'[o].connections
       ]_vars

(* the orchestrator's publish has sent to w1 and w2, both subscribed before *)
(* and both have received it, while the catch-up call of w2's handler is    *)
(* still in progress                                                        *)
C19_Witness ==
  /\ pub[Orchestrator].busy /\ pub[Orchestrator].todo = {}
  /\ pub[Orchestrator].connections = {"w1", "w2"}
  /\ Subscribed("w1") /\ Subscribed("w2")
  /\ Received("w1", Orchestrator) /\ Received("w2", Orchestrator)
  /\ pub["w2"].busy /\ pub["w2"].todo # {}

(* no publish call and no catch-up is in progress *)
Quiescent ==
  /\ \A o \in Owners : ~pub[o].busy
  /\ \A w \in Sinks : handler[w].pc \in {"idle", "listening", "done"}

(* the status messages sink w received, in order *)
StatusMessages(w) == SelectSeq(received[w], LAMBDA e : e.type = "status_update")

(* a status message agrees with the status record doc *)
Reflects(e, doc) ==
  /\ e.status = doc.overall_status
  /\ IF e.by = Orchestrator
     THEN doc.messages # <<>> /\ e.message = doc.messages[Len(doc.messages)]
     ELSE e.messages = doc.messages

(* C20: once nothing is in progress, the last status message a subscribed   *)
(* observer received reflects the current StatusRecord: a catch-up snapshot *)
(* read before an update is not delivered after the update's live event.    *)
C20_NoPermanentStaleness ==
  Quiescent =>
    \A w \in Sinks :
      (Subscribed(w) /\ StatusMessages(w) # <<>>) =>
        Reflects(StatusMessages(w)[Len(StatusMessages(w))],
                 get_workflow_progress(store, HubId))

(* the positions at which sink w received event e *)
ReceivedAt(w, e) == {k \in 1..Len(received[w]) : received[w][k] = e}

(* C21: the events reach every observer in the order in which their publish *)
(* calls started: no two observers receive the events of two calls in       *)
(* opposite orders, a handler's catch-up call running concurrently with the *)
(* orchestrator's call included.                                            *)
C21_PublishOrder ==
  \A a, b \in Sinks :
    \A i, j \in 1..Len(received[a]) :
      (i < j /\ received[a][i] # received[a][j]) =>
        ~ \E k \in ReceivedAt(b, received[a][j]), l \in ReceivedAt(b, received[a][i]) : k < l

(* C22: in every reachable registry no instance id maps to an empty set;    *)
(* connecting a sink that is registered changes nothing (a sink is in the   *)
(* id's set at most once), disconnecting removes the sink and drops the id  *)
(* when its set becomes empty, and disconnecting an unknown sink or an      *)
(* unknown id leaves the registry unchanged - as the handler's finally      *)
(* clause does for a sink a publish call has already removed.               *)
C22_RegistryInvariants ==
  /\ [](/\ \A k \in DOMAIN active_connections : active_connections[k] # {}
        /\ \A w \in Sinks, pid \in PromptIds :
             /\ connect(connect(active_connections, w, pid), w, pid) =
                  connect(active_connections, w, pid)
             /\ w \in registered(connect(active_connections, w, pid), pid)
             /\ registered(disconnect(active_connections, w, pid), pid) =
                  registered(active_connections, pid) \ {w}
             /\ \A k \in DOMAIN disconnect(active_connections, w, pid) :
                  disconnect(active_connections, w, pid)[k] # {}
             /\ w \notin registered(active_connections, pid) =>
                  disconnect(active_connections, w, pid) = active_connections)
  /\ [][\A w \in Sinks :
          (handler[w].pc = "listening" /\ handler'[w].pc = "done"
             /\ w \notin registered(active_connections, HubId)) =>
            active_connections' = active_connections]_vars

(* two observers were subscribed and received events, both handlers have    *)
(* ended and the id's entry is gone from the registry                       *)
C22_Witness ==
  /\ handler["w1"].pc = "done" /\ handler["w2"].pc = "done"
  /\ received["w1"] # <<>> /\ received["w2"] # <<>>
  /\ active_connections = <<>>

(* C23: a sink whose connection handler has ended is not in the registry,   *)
(* and when a publish call returns no sink whose delivery raised in it is   *)
(* in the registry - whatever publish calls are in progress.                *)
C23_NoLeakedRegistrations ==
  /\ [](\A w \in Sinks : handler[w].pc = "done" => w \notin registered(active_connections, HubId))
  /\ [][\A o \in Owners :
          Returns(o) => pub[o].failed \cap registered(active_connections', HubId) = {}]_vars

(* the handler of w1, which was subscribed, has ended while a publish call  *)
(* that copied w1 has still to send to it                                   *)
C23_Witness ==
  /\ handler["w1"].pc = "done"
  /\ received["w1"] # <<>>
  /\ \E o \in Owners : pub[o].busy /\ "w1" \in pub[o].todo
  /\ "w1" \notin registered(active_connections, HubId)

(* the events sink w received from its own handler's catch-up, in order *)
OwnEvents(w) == SelectSeq(received[w], LAMBDA e : e.by = w)

(* the catch-up of an instance with a status record or without one, and     *)
(* with n Sessions: what is sent (a status or a session update) and for     *)
(* which Session                                                            *)
CatchUpPlan(n) ==
  (IF get_workflow_progress(store, HubId).id # 0
   THEN <<[type |-> "status_update", session |-> 0]>> ELSE <<>>)
  \o [k \in 1..n |-> [type |-> "session_update", session |-> k]]

InitQuery ==
  /\ InitCommon
  /\ InitNoRun
  /\ HubIdle
  /\ store = <<>>
  /\ callers = {}
  /\ prompts \in SUBSET PromptIds
  /\ responses = <<>>
  /\ pin_docs = <<>>
  /\ evaluation = NoEvaluation
  /\ session_timestamp = <<>>

NextQuery ==
  \/ \E pid \in PromptIds : get_prompt_status(pid)
  \/ \E pid \in PromptIds : get_prompt_pins(pid)

SpecQuery == InitQuery /\ [][NextQuery]_vars

(* C25: a status or results query for an instance id that is not in the     *)
(* prompts collection is answered with not found, and no query changes      *)
(* stored state.                                                            *)
C25_NotFound ==
  /\ [](\A k \in 1..Len(responses) :
          responses[k].prompt_id \notin prompts => responses[k].status = "404 Not Found")
  /\ [][UNCHANGED <<prompts, store, sessions, pins, prompt_status>>]_vars

(* One evaluator call on an instance with up to MaxItems pins *)
InitEval ==
  /\ InitCommon
  /\ InitNoRun
  /\ HubIdle
  /\ store = <<>>
  /\ callers = {}
  /\ prompts = {RunId}
  /\ responses = <<>>
  /\ pin_docs \in UNION {[1..n -> PinStatuses] : n \in 0..MaxItems}
  /\ evaluation = NoEvaluation
  /\ session_timestamp = <<>>

NextEval == \E outs \in [1..Len(pin_docs) -> ItemOutcomes] : evaluate(outs)

SpecEval == InitEval /\ [][NextEval]_vars

(* the pins that were awaiting evaluation when the call began *)
ReadyBefore == {i \in 1..Len(evaluation.before) : evaluation.before[i] = "ready"}

(* C26: after an evaluator call in which evaluating some ready item raised, *)
(* every other ready item has the status its evaluation gave it, the        *)
(* failed item is still ready, evaluated_count counts the items evaluated   *)
(* and equals approved_count + disqualified_count, and the call reports     *)
(* success.                                                                 *)
C26_PartialItemFailure ==
  (evaluation.called /\ \E i \in ReadyBefore : evaluation.outs[i] = "raises") =>
    /\ ~evaluation.result.raised
    /\ evaluation.result.success
    /\ \A i \in ReadyBefore :
          pin_docs[i] = IF evaluation.outs[i] = "raises" THEN "ready" ELSE evaluation.outs[i]
    /\ evaluation.result.evaluated_count =
         Cardinality({i \in ReadyBefore : evaluation.outs[i] # "raises"})
    /\ evaluation.result.evaluated_count =
         evaluation.result.approved_count + evaluation.result.disqualified_count

(* the Sessions of a stage *)
SessionsOfStage(st) == {i \in 1..Len(sessions) : sessions[i].stage = st}

(* C27: a finished run in which initialize, warmup, collect and enrich      *)
(* succeeded and the validation ran has exactly three Sessions, one for     *)
(* each of the stages warmup, scraping and validation; the outcome of       *)
(* enrich is on the Session collect created; no stage ever has two          *)
(* Sessions.                                                                *)
C27_ThreeSessions ==
  /\ \A st \in {"warmup", "scraping", "validation"} : Cardinality(SessionsOfStage(st)) <= 1
  /\ run.result["enrich"] # "none" =>
       /\ enrichment_session_id = run.scraping_session_id
       /\ SessionsOfStage("scraping") = {run.scraping_session_id}
       /\ sessions[run.scraping_session_id].status =
            IF run.result["enrich"] = "ok" THEN "completed" ELSE "failed"
  /\ (run.pc = "done" /\ run.result["initialize"] = "ok" /\ run.result["warmup"] = "ok"
        /\ run.result["collect"] = "ok" /\ run.result["enrich"] = "ok") =>
       /\ Len(sessions) = 3
       /\ \A st \in {"warmup", "scraping", "validation"} :
             Cardinality(SessionsOfStage(st)) = 1

(* C28: when the run has terminated no Session of the instance is pending:  *)
(* the Session of a stage whose phases succeeded is ready (warmup) or       *)
(* completed, and the Session of a stage with a failed phase - by returned  *)
(* failure or raised exception - is failed.                                 *)
C28_SessionsFinalized ==
  run.pc = "done" =>
    /\ \A i \in 1..Len(sessions) : sessions[i].status \in {"ready", "completed", "failed"}
    /\ \A P \in PhaseSet : \A i \in SessionsOf(P) :
          /\ PhaseFailed(P) => sessions[i].status = "failed"
          /\ (\A Q \in PhaseSet : StageOf(Q) = StageOf(P) => run.result[Q] = "ok") =>
                sessions[i].status \in {"ready", "completed"}

(* the run has terminated after warmup and collect succeeded and enrich     *)
(* failed: the warmup Session is ready and the scraping Session failed      *)
C28_Witness ==
  /\ run.pc = "done"
  /\ run.result["warmup"] = "ok" /\ run.result["collect"] = "ok"
  /\ run.result["enrich"] = "failed"
  /\ \E i \in SessionsOfStage("warmup") : sessions[i].status = "ready"
  /\ \E i \in SessionsOfStage("scraping") : sessions[i].status = "failed"

(* the log lines run_scraping_phase emits (workflow/main.py:400-441) *)
CollectLines ==
  {"Starting scraping phase", "Refreshing Pinterest feed...", "Scraping completed",
   "Saved pins to database", "No pins found during scraping", "Scraping phase error"}

(* C29: the log lines emitted while collect is executing are appended to    *)
(* collect's Session and to no other: no Session of another stage - the     *)
(* warmup Session, finalized when warmup ended - holds one of them.         *)
C29_LogsToOwnSession ==
  \A i \in 1..Len(sessions) :
    \A k \in 1..Len(sessions[i].log) :
      sessions[i].log[k] \in CollectLines => sessions[i].stage = "scraping"

(* Calls of SessionDB on the Sessions of one instance *)
InitSessions ==
  /\ InitCommon
  /\ InitNoRun
  /\ HubIdle
  /\ OtherIdle
  /\ store = <<>>
  /\ callers = {}

NextSessions ==
  \/ \E stage \in {"warmup", "scraping", "validation"} : session_create(stage)
  \/ \E sid \in 1..MaxSessions, line \in {"l1", "l2"} : session_add_log(sid, line)
  \/ \E sid \in 1..MaxSessions, status \in {"ready", "completed", "failed"} :
        session_update_status(sid, status)

SpecSessions == InitSessions /\ [][NextSessions]_vars

(* C30: after any sequence of create_session, add_session_log and           *)
(* update_session_status calls get_sessions_by_prompt returns the           *)
(* instance's Sessions in the order of their creation.                      *)
C30_ListedByCreation ==
  get_sessions_by_prompt(session_timestamp) = [i \in 1..Len(sessions) |-> i]

(* C31: step counting and percentage are independent.  The write of an     *)
(* update that carries a progress value but no message leaves              *)
(* current_step, total_steps and the message history as they were; the     *)
(* write of an update that carries a message but no progress value leaves  *)
(* the percentage as it was; the write of an update with neither changes   *)
(* nothing but overall_status (and completed_at when the status is         *)
(* completed), in the record and in the rest of the collection.            *)
C31_StepsAndPercentageIndependent ==
  [][\A p \in callers : IsUpdateWrite(p) =>
       LET before == get_workflow_progress(store, call[p].pid)
           after == get_workflow_progress(store', call[p].pid)
           m == call[p].message
           g == call[p].progress
       IN /\ (~Truthy(m) /\ g # NoProgress) =>
               /\ after.current_step = before.current_step
               /\ after.total_steps = before.total_steps
               /\ after.messages = before.messages
               /\ after.progress = g
          /\ (Truthy(m) /\ g = NoProgress) =>
               /\ after.progress = before.progress
               /\ after.current_step = before.current_step + 1
          /\ (~Truthy(m) /\ g = NoProgress) =>
               /\ Len(store') = Len(store)
               /\ \A i \in 1..Len(store) :
                    store'[i] =
                      IF i = FirstIdx(store, call[p].pid)
                      THEN [store[i] EXCEPT
                              !.overall_status = call[p].status,
                              !.completed_at = IF call[p].status = "completed"
                                               THEN clock ELSE @]
                      ELSE store[i]]_vars

(* an update with a progress value and no message has been applied to a    *)
(* record whose history is empty: the percentage is 100, the step count 0  *)
C31_Witness ==
  \E p \in Procs :
    /\ call[p].fn = "update" /\ call[p].pc = "idle" /\ call[p].retOk
    /\ get_workflow_progress(store, "p1").progress = 100
    /\ get_workflow_progress(store, "p1").messages = <<>>
    /\ get_workflow_progress(store, "p1").current_step = 0
    /\ get_workflow_progress(store, "p1").total_steps = 0

(* C32: steps are never double-counted or under-counted: in every          *)
(* reachable state current_step of every record equals the number of       *)
(* entries of its message history, also when two update calls with         *)
(* messages on one instance id interleave between their read and write.    *)
C32_StepsEqualHistory ==
  \A i \in 1..Len(store) : store[i].current_step = Len(store[i].messages)

(* C33: in every reachable state total_steps of every record equals its    *)
(* current_step (never ahead of it, never behind), under any interleaving  *)
(* of create_workflow_status, update_step_status and cleanup calls.        *)
C33_TotalEqualsCurrent ==
  \A i \in 1..Len(store) : store[i].total_steps = store[i].current_step

(* two updates with a message that read the record before either wrote     *)
(* have both been applied: three messages, both counters at 2              *)
C33_Witness ==
  /\ \A p \in Procs : call[p].fn = "update" /\ call[p].pc = "idle" /\ call[p].retOk
  /\ Len(get_workflow_progress(store, "p1").messages) = 3
  /\ get_workflow_progress(store, "p1").current_step = 2
  /\ get_workflow_progress(store, "p1").total_steps = 2

(* C34: the catch-up sent when an observer attaches is delivered only to   *)
(* the attaching observer: every message an observer has received was      *)
(* built by the orchestrator's publish or by its own attach, never by the  *)
(* attach of another observer.                                             *)
C34_CatchUpOnlyToAttaching ==
  \A w \in Sinks : \A i \in 1..Len(received[w]) :
    received[w][i].by \in {w, Orchestrator}

(* the live events sink w has received *)
LiveReceived(w) == {i \in 1..Len(received[w]) : received[w][i].by = Orchestrator}

(* C35: every status_update the orchestrator publishes is published after  *)
(* the update has been applied to the StatusRecord: in the step that       *)
(* publishes, the record already shows the update's status and message,    *)
(* and whenever an observer holds a live event, get_workflow_progress      *)
(* shows a record that contains the event's message (it is not older than  *)
(* the event).  When the update raises, nothing is published or sent and   *)
(* setStatus returns: the orchestrator has no call in progress.            *)
C35_PublishAfterApply ==
  /\ [](\A w \in Sinks : \A i \in LiveReceived(w) :
          LET doc == get_workflow_progress(store, HubId) IN
          /\ doc.id # 0
          /\ \E k \in 1..Len(doc.messages) : doc.messages[k] = received[w][i].message)
  /\ [][/\ published' # published =>
             LET doc == get_workflow_progress(store', HubId)
                 e == published'[Len(published')]
             IN /\ Len(published') = Len(published) + 1
                /\ doc.id # 0
                /\ doc.overall_status = e.status
                /\ doc.messages = Append(get_workflow_progress(store, HubId).messages,
                                         e.message)
        /\ (issued' # issued /\ get_workflow_progress(store, HubId).id = 0) =>
             /\ published' = published
             /\ received' = received
             /\ store' = store
             /\ pub'[Orchestrator] = NoPub
       ]_vars

(* an observer holds the live event of an update, and the record shows the *)
(* update                                                                   *)
C35_Witness ==
  \E w \in Sinks :
    /\ LiveReceived(w) # {}
    /\ Len(published) = 1
    /\ get_workflow_progress(store, HubId).messages = <<published[1].message>>
    /\ get_workflow_progress(store, HubId).overall_status = published[1].status

(* the progress values of the updates the run has issued, in issue order;   *)
(* status.py:98-99 writes each of them to the record as it is               *)
IssuedProgress ==
  LET carrying == SelectSeq(issued, LAMBDA u : u.progress # NoProgress)
  IN [i \in 1..Len(carrying) |-> carrying[i].progress]

C37_TerminalStatusAbsorbing ==
  [][/\ prompt_status = "error" => prompt_status' = "error"
     /\ prompt_status = "completed" => prompt_status' = "completed"]_vars

(* the run has ended after a failed initialization: error was written by   *)
(* initialize_session, the workflow went on to its cleanup and the route    *)
(* wrote the status once more                                               *)
C37_Witness ==
  /\ run.pc = "done"
  /\ run.result["initialize"] = "failed"
  /\ prompt_status = "error"

(* Two instance ids, no observer yet, no call in progress *)
InitIsolation ==
  /\ clock = InitClock
  /\ call = [p \in Procs |-> IdleCall]
  /\ nops = 0
  /\ callers = {}
  /\ pins = 0
  /\ calls = <<>>
  /\ issued = <<>>
  /\ published = <<>>
  /\ prompt_status = "pending"
  /\ run = RunIdle
  /\ store = <<>>
  /\ sessions = <<>>
  /\ active_connections = <<>>
  /\ socket_state = [w \in Sinks |-> "new"]
  /\ received = [w \in Sinks |-> <<>>]
  /\ handler = [w \in Sinks |-> [pc |-> "idle", next |-> 0]]
  /\ pub = [pid \in PromptIds |-> NoPub]
  /\ OtherIdle

NextIsolation ==
  \/ \E w \in Sinks, pid \in PromptIds : hub_connect(w, pid)
  \/ \E w \in Sinks : client_close(w)
  \/ \E w \in Sinks : hub_disconnect(w)
  \/ \E pid \in PromptIds : send_status_update(pid)
  \/ \E pid \in PromptIds : pub_send(pid)
  \/ \E pid \in PromptIds : send_status_update_return(pid)

SpecIsolation == InitIsolation /\ [][NextIsolation]_vars

(* C38: instances are isolated.  Every message a sink has received is for  *)
(* the id the sink subscribed to; a step of a send_status_update call for  *)
(* id A leaves the observer set of every other id as it was, and changes   *)
(* the observer set of A only by removing, when the call returns, the      *)
(* sinks whose send failed.                                                *)
C38_InstanceIsolation ==
  /\ [](\A w \in Sinks : \A i \in 1..Len(received[w]) :
          /\ handler[w].pc # "idle"
          /\ received[w][i].prompt_id = handler[w].prompt_id)
  /\ [][\A pid \in PromptIds :
          (pub'[pid] # pub[pid]) =>
            /\ \A q \in PromptIds \ {pid} :
                 registered(active_connections', q) = registered(active_connections, q)
            /\ registered(active_connections', pid) =
                 registered(active_connections, pid) \
                   (IF pub'[pid] = NoPub THEN pub[pid].failed ELSE {})
       ]_vars

(* a call for p1 has returned after its send to w1 failed: w1, which has    *)
(* not left by itself, is removed from p1, while w2 is still registered for *)
(* p2 and has received nothing                                              *)
C38_Witness ==
  /\ Len(published) >= 1 /\ published[1].prompt_id = "p1"
  /\ ~pub["p1"].busy
  /\ handler["w1"].pc = "listening" /\ handler["w1"].prompt_id = "p1"
  /\ socket_state["w1"] = "closed"
  /\ registered(active_connections, "p1") = {}
  /\ registered(active_connections, "p2") = {"w2"}
  /\ received["w2"] = <<>>

====
